----------------------------- MODULE ToolDeploy -----------------------------
(***************************************************************************)
(* Deployer.Run of internal/tooldeploy: several servers deploy and run     *)
(* tools on one SSH host.  They meet in its files: a binary for each tool  *)
(* and version, and the manifest ~/.vohu/tools.json, which each reads,     *)
(* changes and rewrites.  Every SFTP request is a step of its own; the     *)
(* connection may be lost, or the server die, at each of them.             *)
(*                                                                         *)
(* A binary is the set of its pieces that have been written since it was   *)
(* last truncated: all servers write the same ones, as deployer.go:9 says. *)
(***************************************************************************)
EXTENDS Naturals, FiniteSets

CONSTANTS Servers,    \* one worker each, that handles one job at a time
          Names, Versions,
          Tools,      \* the versions of tools there are jobs for
          None,       \* in the manifest: the tool is not listed
          Pieces,     \* the writes a binary takes
          MaxFaults   \* bound: connections that are lost

ASSUME ToolAssumption == Tools \subseteq [name: Names, version: Versions]
ASSUME NoneAssumption == None \notin Versions
ASSUME PieceAssumption == Pieces \in Nat \ {0}
ASSUME FaultAssumption == MaxFaults \in Nat

VARIABLES place,      \* where the Run of each server stands
          tool,       \* what it deploys and runs
          known,      \* the manifest it has read, if it is going to change it
          written,    \* how many pieces it has written
          files,      \* the binaries on the host
          listing,    \* the manifest on the host; nothing listed: absent or empty
          garbled,    \* ... whose text is not JSON
          faults,
          torn,       \* history: binaries whose latest upload, or one beside it, was cut off
          overlapped  \* history: two rewrote the manifest at once

host == <<files, listing, garbled>>
past == <<torn, overlapped>>
vars == <<place, tool, known, written, host, faults, past>>

\* A server is at rest before its first job and after each: "failed" if there was
\* an error of the deployment, "idle" if the tool ran or could not be compiled.
AtRest == {"idle", "failed"}
Places == AtRest \cup {"read", "build", "create", "write", "chmod", "rewrite",
                       "save", "execute", "running"}
Manifest == [Names -> Versions \cup {None}]
File == [pieces: SUBSET (1 .. Pieces), mode: {"absent", "plain", "executable"}]

TypeOK ==
    /\ place \in [Servers -> Places]
    /\ tool \in [Servers -> Tools]
    /\ known \in [Servers -> Manifest]
    /\ written \in [Servers -> 0 .. Pieces]
    /\ files \in [Tools -> File]
    /\ listing \in Manifest
    /\ garbled \in BOOLEAN
    /\ faults \in 0 .. MaxFaults
    /\ torn \subseteq Tools
    /\ overlapped \in BOOLEAN

-----------------------------------------------------------------------------
Nothing == [n \in Names |-> None]
Lists(t) == listing[t.name] = t.version

\* A program the host can start: complete, and with the mode Chmod gives it.
IsDeployed(t) == files[t].pieces = 1 .. Pieces /\ files[t].mode = "executable"

\* The servers that have the binary of t open for writing.
Uploading(t) == {s \in Servers : place[s] = "write" /\ tool[s] = t}
Rewriting == {s \in Servers : place[s] = "save"}

Init ==
    /\ place = [s \in Servers |-> "idle"]
    /\ tool \in [Servers -> Tools]
    /\ known = [s \in Servers |-> Nothing]
    /\ written = [s \in Servers |-> 0]
    /\ files = [t \in Tools |-> [pieces |-> {}, mode |-> "absent"]]
    /\ listing = Nothing
    /\ garbled = FALSE
    /\ faults = 0
    /\ torn = {}
    /\ overlapped = FALSE

Goes(s, next) == place' = [place EXCEPT ![s] = next]

\* Run returns, and what it has read is forgotten.
Ends(s, rest) == Goes(s, rest) /\ known' = [known EXCEPT ![s] = Nothing]

\* The worker takes a job: the tool at the version that is the latest just now.
Start(s) ==
    /\ place[s] \in AtRest
    /\ \E t \in Tools : tool' = [tool EXCEPT ![s] = t]
    /\ Goes(s, "read")
    /\ UNCHANGED <<known, written, host, faults, past>>

\* readManifest and find: a listed version is run as it is.
ReadManifest(s) ==
    /\ place[s] = "read"
    /\ \/ garbled /\ Ends(s, "failed")
       \/ ~garbled /\ Lists(tool[s]) /\ Goes(s, "execute") /\ UNCHANGED known
       \/ /\ ~garbled /\ ~Lists(tool[s])
          /\ known' = [known EXCEPT ![s] = listing]
          /\ Goes(s, "build")
    /\ UNCHANGED <<tool, written, host, faults, past>>

\* The source may not compile.
Build(s) ==
    /\ place[s] = "build"
    /\ \/ Goes(s, "create") /\ UNCHANGED known
       \/ Ends(s, "idle")
    /\ UNCHANGED <<tool, written, host, faults, past>>

\* Create truncates the file where it is, and keeps its mode.
Truncated(t) ==
    [files EXCEPT ![t] = [pieces |-> {},
                          mode |-> IF @.mode = "absent" THEN "plain" ELSE @.mode]]

\* A program that is running cannot be opened for writing.
Busy(t) == \E s \in Servers : place[s] = "running" /\ tool[s] = t

CreateBinary(s) ==
    /\ place[s] = "create"
    /\ \/ Busy(tool[s]) /\ Ends(s, "failed") /\ UNCHANGED <<written, files, torn>>
       \/ /\ ~Busy(tool[s])
          /\ files' = Truncated(tool[s])
          /\ written' = [written EXCEPT ![s] = 0]
          /\ Goes(s, "write")
          /\ torn' = torn \ {tool[s]}
          /\ UNCHANGED known
    /\ UNCHANGED <<tool, listing, garbled, faults, overlapped>>

WriteBinary(s) ==
    /\ place[s] = "write"
    /\ written[s] < Pieces
    /\ written' = [written EXCEPT ![s] = @ + 1]
    /\ files' = [files EXCEPT ![tool[s]].pieces = @ \cup {written[s] + 1}]
    /\ UNCHANGED <<place, tool, known, listing, garbled, faults, past>>

\* Mutant of CloseBinary: a short write goes unnoticed.
CloseEarly(s) ==
    /\ place[s] = "write"
    /\ Goes(s, "chmod")
    /\ UNCHANGED <<tool, known, written, host, faults, past>>

CloseBinary(s) ==
    /\ place[s] = "write"
    /\ written[s] = Pieces
    /\ Goes(s, "chmod")
    /\ UNCHANGED <<tool, known, written, host, faults, past>>

Chmod(s) ==
    /\ place[s] = "chmod"
    /\ files' = [files EXCEPT ![tool[s]].mode = "executable"]
    /\ Goes(s, "rewrite")
    /\ UNCHANGED <<tool, known, written, listing, garbled, faults, past>>

\* Mutant of TruncateManifest: the file is opened without O_TRUNC.
OpenManifest == UNCHANGED <<listing, garbled>>

\* Create empties the manifest; an empty one reads as "nothing deployed".
TruncateManifest == listing' = Nothing /\ garbled' = FALSE

RewriteManifest(s) ==
    /\ place[s] = "rewrite"
    /\ TruncateManifest
    /\ overlapped' = (overlapped \/ Rewriting # {})
    /\ Goes(s, "save")
    /\ UNCHANGED <<tool, known, written, files, faults, torn>>

\* upsert into the manifest as it was read.
Upsert(s) == [known[s] EXCEPT ![tool[s].name] = tool[s].version]

\* The text of a manifest grows with its entries; two of as many may differ in
\* length either way.
Size(m) == Cardinality({n \in Names : m[n] # None})

\* A text is written from the start of the file: what another has put there in the
\* meantime shows behind it if that was longer.
Put(m) ==
    /\ listing' = m
    /\ garbled' \in BOOLEAN
    /\ garbled' => garbled \/ (listing \notin {Nothing, m} /\ Size(listing) >= Size(m))
    /\ ~garbled' => garbled \/ Size(listing) <= Size(m)

SaveManifest(s) ==
    /\ place[s] = "save"
    /\ Put(Upsert(s))
    /\ Goes(s, "execute")
    /\ known' = [known EXCEPT ![s] = Nothing]
    /\ UNCHANGED <<tool, written, files, faults, past>>

\* session.Run: the host starts it only if it is all there and nobody writes to it.
Execute(s) ==
    /\ place[s] = "execute"
    /\ LET starts == IsDeployed(tool[s]) /\ Uploading(tool[s]) = {}
       IN  \/ starts /\ Goes(s, "running") /\ UNCHANGED known
           \/ ~starts /\ Ends(s, "failed")
    /\ UNCHANGED <<tool, written, host, faults, past>>

Finish(s) ==
    /\ place[s] = "running"
    /\ Ends(s, "idle")
    /\ UNCHANGED <<tool, written, host, faults, past>>

\* The connection is lost, or the server dies: the request it was at may have had
\* its effect. A server takes jobs again after its restart.
Lose(s) ==
    /\ place[s] \notin AtRest
    /\ faults < MaxFaults
    /\ faults' = faults + 1
    /\ Ends(s, "failed")
    /\ \/ UNCHANGED host
       \/ /\ place[s] = "create" /\ ~Busy(tool[s])
          /\ files' = Truncated(tool[s])
          /\ UNCHANGED <<listing, garbled>>
       \/ place[s] = "rewrite" /\ TruncateManifest /\ UNCHANGED files
       \/ place[s] = "save" /\ Put(Upsert(s)) /\ UNCHANGED files
    /\ torn' = IF place[s] \in {"create", "write"} THEN torn \cup {tool[s]} ELSE torn
    /\ overlapped' = (overlapped \/ (place[s] = "rewrite" /\ Rewriting # {}))
    /\ UNCHANGED <<tool, written>>

Next ==
    \E s \in Servers :
        \/ Start(s) \/ ReadManifest(s) \/ Build(s) \/ CreateBinary(s) \/ WriteBinary(s)
        \/ CloseBinary(s) \/ Chmod(s) \/ RewriteManifest(s) \/ SaveManifest(s)
        \/ Execute(s) \/ Finish(s) \/ Lose(s)

Spec == Init /\ [][Next]_vars

-----------------------------------------------------------------------------
\* A listed version is never built again (deployer.go:82-84), so its binary has to
\* be there and complete, for every server and at every moment: only one that is
\* uploading it again, because it read an older manifest, takes it away, for as
\* long as that goes on, or for good if it is cut off.
ListedIsDeployed ==
    \A t \in Tools : Lists(t) /\ t \notin torn => IsDeployed(t) \/ Uploading(t) # {}

\* A manifest that is not JSON fails every later Run on its host (manifest.go:65-67),
\* and nobody repairs it. It takes two servers between Create and Write (manifest.go:
\* 81-88) at once to make one; a lost connection never does.
GarbledByOverlap == garbled => overlapped

=============================================================================
