-------------------------- MODULE ToolDeployProofs --------------------------
(***************************************************************************)
(* For any number of servers, tools and lost connections: what the         *)
(* manifest lists is on the host unless it is being uploaded again or that *)
(* was cut off, and the manifest is garbled only by two who rewrite it.    *)
(***************************************************************************)
EXTENDS ToolDeploy, TLAPS

LEMMA NothingType == Nothing \in Manifest
  BY DEF Nothing, Manifest

LEMMA EndsType ==
    ASSUME TypeOK, NEW s \in Servers, NEW rest \in AtRest, Ends(s, rest)
    PROVE  place' \in [Servers -> Places] /\ known' \in [Servers -> Manifest]
  BY NothingType DEF TypeOK, Ends, Goes, Places

LEMMA GoesType ==
    ASSUME TypeOK, NEW s \in Servers, NEW next \in Places, Goes(s, next)
    PROVE  place' \in [Servers -> Places]
  BY DEF TypeOK, Goes

LEMMA TruncatedType ==
    ASSUME TypeOK, NEW t \in Tools
    PROVE  /\ Truncated(t) \in [Tools -> File]
           /\ Truncated(t)[t].pieces = {}
           /\ Truncated(t)[t].mode # "absent"
           /\ files[t].mode = "executable" => Truncated(t)[t].mode = "executable"
           /\ \A u \in Tools \ {t} : Truncated(t)[u] = files[u]
  BY DEF TypeOK, Truncated, File

LEMMA UpsertType ==
    ASSUME TypeOK, NEW s \in Servers
    PROVE  Upsert(s) \in Manifest
  BY ToolAssumption DEF TypeOK, Upsert, Manifest

LEMMA TypeInit == Init => TypeOK
<1> SUFFICES ASSUME Init PROVE TypeOK
  OBVIOUS
<1>1. place \in [Servers -> Places] /\ tool \in [Servers -> Tools]
  BY DEF Init, Places, AtRest
<1>2. known \in [Servers -> Manifest] /\ listing \in Manifest
  BY NothingType DEF Init
<1>3. written \in [Servers -> 0 .. Pieces] /\ faults \in 0 .. MaxFaults
  BY PieceAssumption, FaultAssumption DEF Init
<1>4. files \in [Tools -> File]
  BY DEF Init, File
<1>5. garbled \in BOOLEAN /\ overlapped \in BOOLEAN
  BY DEF Init
<1>6. torn \subseteq Tools
  BY DEF Init
<1>7. QED
  BY <1>1, <1>2, <1>3, <1>4, <1>5, <1>6 DEF TypeOK

LEMMA TypeStep == TypeOK /\ [Next]_vars => TypeOK'
<1> SUFFICES ASSUME TypeOK, [Next]_vars PROVE TypeOK'
  OBVIOUS
<1>1. ASSUME NEW s \in Servers, Start(s) PROVE TypeOK'
  <2>1. place' \in [Servers -> Places]
    BY <1>1, GoesType DEF Start, Places
  <2>2. tool' \in [Servers -> Tools]
    BY <1>1 DEF Start, TypeOK
  <2>3. QED
    BY <1>1, <2>1, <2>2 DEF Start, TypeOK, host, past
<1>2. ASSUME NEW s \in Servers, ReadManifest(s) PROVE TypeOK'
  <2>1. place' \in [Servers -> Places]
    BY <1>2, GoesType, EndsType DEF ReadManifest, Places, AtRest
  <2>2. known' \in [Servers -> Manifest]
    BY <1>2, EndsType DEF ReadManifest, AtRest, TypeOK
  <2>3. QED
    BY <1>2, <2>1, <2>2 DEF ReadManifest, TypeOK, host, past
<1>3. ASSUME NEW s \in Servers, Build(s) PROVE TypeOK'
  <2>1. place' \in [Servers -> Places] /\ known' \in [Servers -> Manifest]
    BY <1>3, GoesType, EndsType DEF Build, Places, AtRest, TypeOK
  <2>2. QED
    BY <1>3, <2>1 DEF Build, TypeOK, host, past
<1>4. ASSUME NEW s \in Servers, CreateBinary(s) PROVE TypeOK'
  <2>1. place' \in [Servers -> Places] /\ known' \in [Servers -> Manifest]
    BY <1>4, GoesType, EndsType DEF CreateBinary, Places, AtRest, TypeOK
  <2>2. files' \in [Tools -> File]
    BY <1>4, TruncatedType DEF CreateBinary, TypeOK
  <2>3. written' \in [Servers -> 0 .. Pieces] /\ torn' \subseteq Tools
    BY <1>4, PieceAssumption DEF CreateBinary, TypeOK
  <2>4. QED
    BY <1>4, <2>1, <2>2, <2>3 DEF CreateBinary, TypeOK
<1>5. ASSUME NEW s \in Servers, WriteBinary(s) PROVE TypeOK'
  <2>1. written[s] \in 0 .. Pieces /\ written[s] + 1 \in 1 .. Pieces
    BY <1>5, PieceAssumption DEF WriteBinary, TypeOK
  <2>2. written' \in [Servers -> 0 .. Pieces]
    BY <1>5, <2>1, PieceAssumption DEF WriteBinary, TypeOK
  <2>3. files' \in [Tools -> File]
    BY <1>5, <2>1 DEF WriteBinary, TypeOK, File
  <2>4. QED
    BY <1>5, <2>2, <2>3 DEF WriteBinary, TypeOK, past
<1>6. ASSUME NEW s \in Servers, CloseBinary(s) PROVE TypeOK'
  <2>1. place' \in [Servers -> Places]
    BY <1>6, GoesType DEF CloseBinary, Places
  <2>2. QED
    BY <1>6, <2>1 DEF CloseBinary, TypeOK, host, past
<1>7. ASSUME NEW s \in Servers, Chmod(s) PROVE TypeOK'
  <2>1. place' \in [Servers -> Places]
    BY <1>7, GoesType DEF Chmod, Places
  <2>2. files' \in [Tools -> File]
    BY <1>7 DEF Chmod, TypeOK, File
  <2>3. QED
    BY <1>7, <2>1, <2>2 DEF Chmod, TypeOK, past
<1>8. ASSUME NEW s \in Servers, RewriteManifest(s) PROVE TypeOK'
  <2>1. place' \in [Servers -> Places]
    BY <1>8, GoesType DEF RewriteManifest, Places
  <2>2. listing' \in Manifest /\ garbled' \in BOOLEAN /\ overlapped' \in BOOLEAN
    BY <1>8, NothingType DEF RewriteManifest, TruncateManifest, TypeOK
  <2>3. QED
    BY <1>8, <2>1, <2>2 DEF RewriteManifest, TypeOK
<1>9. ASSUME NEW s \in Servers, SaveManifest(s) PROVE TypeOK'
  <2>1. place' \in [Servers -> Places]
    BY <1>9, GoesType DEF SaveManifest, Places
  <2>2. listing' \in Manifest /\ garbled' \in BOOLEAN
    BY <1>9, UpsertType DEF SaveManifest, Put
  <2>3. known' \in [Servers -> Manifest]
    BY <1>9, NothingType DEF SaveManifest, TypeOK
  <2>4. QED
    BY <1>9, <2>1, <2>2, <2>3 DEF SaveManifest, TypeOK, past
<1>10. ASSUME NEW s \in Servers, Execute(s) PROVE TypeOK'
  <2>1. place' \in [Servers -> Places] /\ known' \in [Servers -> Manifest]
    BY <1>10, GoesType, EndsType DEF Execute, Places, AtRest, TypeOK
  <2>2. QED
    BY <1>10, <2>1 DEF Execute, TypeOK, host, past
<1>11. ASSUME NEW s \in Servers, Finish(s) PROVE TypeOK'
  <2>1. place' \in [Servers -> Places] /\ known' \in [Servers -> Manifest]
    BY <1>11, EndsType DEF Finish, AtRest
  <2>2. QED
    BY <1>11, <2>1 DEF Finish, TypeOK, host, past
<1>12. ASSUME NEW s \in Servers, Lose(s) PROVE TypeOK'
  <2>1. place' \in [Servers -> Places] /\ known' \in [Servers -> Manifest]
    BY <1>12, EndsType DEF Lose, AtRest
  <2>2. files' \in [Tools -> File]
    BY <1>12, TruncatedType DEF Lose, TypeOK, host
  <2>3. listing' \in Manifest /\ garbled' \in BOOLEAN
    BY <1>12, NothingType, UpsertType DEF Lose, TruncateManifest, Put, TypeOK, host
  <2>4. faults' \in 0 .. MaxFaults
    BY <1>12, FaultAssumption DEF Lose, TypeOK
  <2>5. torn' \subseteq Tools
    BY <1>12 DEF Lose, TypeOK
  <2>6. overlapped' \in BOOLEAN
    BY <1>12 DEF Lose, TypeOK
  <2>7. QED
    BY <1>12, <2>1, <2>2, <2>3, <2>4, <2>5, <2>6 DEF Lose, TypeOK
<1>13. CASE UNCHANGED vars
  BY <1>13 DEF vars, host, past, TypeOK
<1>14. QED
  BY <1>1, <1>2, <1>3, <1>4, <1>5, <1>6, <1>7, <1>8, <1>9, <1>10, <1>11, <1>12, <1>13
  DEF Next

\* Every reachable state of the servers and the host has its type (deployer.go:53-103).
THEOREM TypeCorrect == Spec => []TypeOK
<1>1. Init => TypeOK
  BY TypeInit
<1>2. TypeOK /\ [Next]_vars => TypeOK'
  BY TypeStep
<1>3. QED
  BY <1>1, <1>2, PTL DEF Spec

-----------------------------------------------------------------------------
\* A binary whose uploads were not cut off is complete, or somebody who has it open
\* has left all the pieces it wrote so far: the last one to truncate it.
FileInv ==
    \A t \in Tools : t \notin torn /\ files[t].mode # "absent" =>
        \/ files[t].pieces = 1 .. Pieces
        \/ \E s \in Uploading(t) : 1 .. written[s] \subseteq files[t].pieces

\* The mode a server has set by the time it gets to a place.
ModeInv ==
    \A s \in Servers :
        /\ place[s] \in {"write", "chmod"} => files[tool[s]].mode # "absent"
        /\ place[s] \in {"rewrite", "save"} => files[tool[s]].mode = "executable"

\* What is listed, or was when somebody read it, has been made executable.
ListInv ==
    \A t \in Tools :
        /\ Lists(t) => files[t].mode = "executable"
        /\ \A s \in Servers : known[s][t.name] = t.version => files[t].mode = "executable"

\* Modes only ever go from absent to plain to executable.
ModesGrow ==
    \A t \in Tools : /\ files[t].mode # "absent" => files'[t].mode # "absent"
                     /\ files[t].mode = "executable" => files'[t].mode = "executable"

LEMMA NothingListed == \A t \in Tools : Nothing[t.name] # t.version
  BY ToolAssumption, NoneAssumption DEF Nothing

\* Upsert adds the tool it is about, and nothing else that was not read.
LEMMA UpsertLists ==
    ASSUME TypeOK, NEW s \in Servers, NEW t \in Tools, Upsert(s)[t.name] = t.version
    PROVE  t = tool[s] \/ known[s][t.name] = t.version
<1>1. t \in [name: Names, version: Versions] /\ tool[s] \in [name: Names, version: Versions]
  BY ToolAssumption DEF TypeOK
<1>2. known[s] \in Manifest
  BY DEF TypeOK
<1>3. CASE t.name = tool[s].name
  <2>1. t.version = tool[s].version
    BY <1>1, <1>2, <1>3 DEF Upsert, Manifest
  <2>2. QED
    BY <1>1, <1>3, <2>1
<1>4. CASE t.name # tool[s].name
  BY <1>1, <1>2, <1>4 DEF Upsert, Manifest
<1>5. QED
  BY <1>3, <1>4

DeployInv == FileInv /\ ModeInv /\ ListInv

\* A step that keeps the modes, the manifest and what is known of it, but for what a
\* server forgets or reads, keeps ListInv.
LEMMA ListKept ==
    ASSUME TypeOK, ListInv, ModesGrow,
           UNCHANGED listing \/ listing' = Nothing,
           NEW s \in Servers,
           \/ UNCHANGED known
           \/ known' = [known EXCEPT ![s] = Nothing]
           \/ known' = [known EXCEPT ![s] = listing]
    PROVE  ListInv'
<1> SUFFICES ASSUME NEW t \in Tools
             PROVE  /\ Lists(t)' => files'[t].mode = "executable"
                    /\ \A u \in Servers : known'[u][t.name] = t.version
                                            => files'[t].mode = "executable"
  BY DEF ListInv
<1>1. files[t].mode = "executable" => files'[t].mode = "executable"
  BY DEF ModesGrow
<1>2. Nothing[t.name] # t.version
  BY NothingListed
<1>3. Lists(t)' => Lists(t)
  BY <1>2 DEF Lists
<1>4. ASSUME NEW u \in Servers, known'[u][t.name] = t.version
      PROVE  known[u][t.name] = t.version \/ Lists(t)
  BY <1>2, <1>4 DEF Lists, TypeOK
<1>5. QED
  BY <1>1, <1>3, <1>4 DEF ListInv

\* A step of one server that leaves the host alone keeps all of DeployInv, unless it
\* takes the server to or from the places the invariant speaks of.
LEMMA HostKept ==
    ASSUME TypeOK, DeployInv, UNCHANGED <<files, listing, written, torn>>,
           NEW s \in Servers,
           place[s] # "write",
           \E next \in Places \ {"write", "chmod", "rewrite", "save"} : Goes(s, next),
           \/ UNCHANGED tool
           \/ \E t \in Tools : tool' = [tool EXCEPT ![s] = t],
           \/ UNCHANGED known
           \/ known' = [known EXCEPT ![s] = Nothing]
           \/ known' = [known EXCEPT ![s] = listing]
    PROVE  DeployInv'
<1>1. ModesGrow
  BY DEF ModesGrow
<1>2. ListInv'
  BY <1>1, ListKept DEF DeployInv
<1>3. \A u \in Servers \ {s} : place'[u] = place[u] /\ tool'[u] = tool[u]
  BY DEF TypeOK, Goes
<1>4. place'[s] \notin {"write", "chmod", "rewrite", "save"}
  BY DEF TypeOK, Goes
<1>5. \A t \in Tools : Uploading(t) \subseteq Uploading(t)'
  BY <1>3 DEF Uploading
<1>6. FileInv'
  BY <1>5 DEF DeployInv, FileInv
<1>7. ModeInv'
  BY <1>3, <1>4 DEF DeployInv, ModeInv
<1>8. QED
  BY <1>2, <1>6, <1>7 DEF DeployInv

\* A step that only lets server s go on, and only changes files of its tool.
LEMMA OthersKept ==
    ASSUME TypeOK, NEW s \in Servers, NEW next \in Places, Goes(s, next)
    PROVE  /\ place'[s] = next
           /\ \A u \in Servers \ {s} : place'[u] = place[u]
  BY DEF TypeOK, Goes

LEMMA CreateKeeps ==
    ASSUME TypeOK, DeployInv, NEW s \in Servers, CreateBinary(s)
    PROVE  DeployInv'
<1>1. CASE Busy(tool[s]) /\ Ends(s, "failed") /\ UNCHANGED <<written, files, torn>>
  <2>1. place[s] # "write" /\ Goes(s, "failed") /\ known' = [known EXCEPT ![s] = Nothing]
    BY <1>1 DEF CreateBinary, Ends
  <2>2. UNCHANGED <<files, listing, written, torn, tool>>
    BY <1>1 DEF CreateBinary
  <2>3. QED
    BY <2>1, <2>2, HostKept DEF Places, AtRest
<1>2. CASE /\ files' = Truncated(tool[s]) /\ Goes(s, "write")
           /\ written' = [written EXCEPT ![s] = 0]
           /\ torn' = torn \ {tool[s]} /\ UNCHANGED known
  <2> DEFINE mine == tool[s]
  <2>0. mine \in Tools /\ place[s] = "create" /\ UNCHANGED <<tool, listing>>
    BY <1>2 DEF TypeOK, CreateBinary
  <2>1. /\ files'[mine].mode # "absent"
        /\ files[mine].mode = "executable" => files'[mine].mode = "executable"
        /\ \A t \in Tools \ {mine} : files'[t] = files[t]
    BY <1>2, <2>0, TruncatedType
  <2>2. ModesGrow
    BY <2>0, <2>1 DEF ModesGrow
  <2>3. place'[s] = "write" /\ \A u \in Servers \ {s} : place'[u] = place[u]
    BY <1>2, OthersKept DEF Places
  <2>4. written'[s] = 0 /\ \A u \in Servers \ {s} : written'[u] = written[u]
    BY <1>2 DEF TypeOK
  <2>5. ASSUME NEW t \in Tools, t \notin torn', files'[t].mode # "absent"
        PROVE  \/ files'[t].pieces = 1 .. Pieces
               \/ \E u \in Uploading(t)' : 1 .. written'[u] \subseteq files'[t].pieces
    <3>1. CASE t = mine
      <4>1. s \in Uploading(t)'
        BY <2>0, <2>3, <3>1 DEF Uploading
      <4>2. 1 .. written'[s] \subseteq files'[t].pieces
        BY <2>4
      <4>3. QED
        BY <4>1, <4>2
    <3>2. CASE t # mine
      <4>1. t \notin torn /\ files'[t] = files[t]
        BY <1>2, <2>1, <2>5, <3>2
      <4>2. \A u \in Uploading(t) : u \in Uploading(t)' /\ written'[u] = written[u]
        BY <2>0, <2>3, <2>4, <3>2 DEF Uploading
      <4>3. QED
        BY <2>5, <4>1, <4>2 DEF DeployInv, FileInv
    <3>3. QED
      BY <3>1, <3>2
  <2>6. ModeInv'
    <3>1. \A u \in Servers : tool[u] \in Tools
      BY DEF TypeOK
    <3>2. QED
      BY <2>0, <2>1, <2>2, <2>3, <3>1 DEF DeployInv, ModeInv, ModesGrow
  <2>7. ListInv'
    BY <1>2, <2>0, <2>2, ListKept DEF DeployInv
  <2>8. QED
    BY <2>5, <2>6, <2>7 DEF DeployInv, FileInv
<1>3. QED
  BY <1>1, <1>2 DEF CreateBinary

LEMMA WriteKeeps ==
    ASSUME TypeOK, DeployInv, NEW s \in Servers, WriteBinary(s)
    PROVE  DeployInv'
<1> DEFINE mine == tool[s]
<1>0. /\ mine \in Tools /\ place[s] = "write"
      /\ written[s] \in 0 .. Pieces /\ written[s] + 1 \in 1 .. Pieces
      /\ UNCHANGED <<place, tool, known, listing, torn>>
  BY PieceAssumption DEF TypeOK, WriteBinary, past
<1>1. written'[s] = written[s] + 1 /\ \A u \in Servers \ {s} : written'[u] = written[u]
  BY DEF TypeOK, WriteBinary
<1>2. /\ files'[mine].mode = files[mine].mode
      /\ files'[mine].pieces = files[mine].pieces \cup {written[s] + 1}
      /\ \A t \in Tools \ {mine} : files'[t] = files[t]
      /\ files[mine].pieces \subseteq 1 .. Pieces
  BY <1>0 DEF TypeOK, WriteBinary, File
<1>3. ModesGrow /\ \A t \in Tools : files'[t].mode = files[t].mode
  BY <1>0, <1>2 DEF ModesGrow
<1>4. \A t \in Tools : Uploading(t)' = Uploading(t)
  BY <1>0 DEF Uploading
<1>5. ASSUME NEW t \in Tools, t \notin torn', files'[t].mode # "absent"
      PROVE  \/ files'[t].pieces = 1 .. Pieces
             \/ \E u \in Uploading(t)' : 1 .. written'[u] \subseteq files'[t].pieces
  <2>1. \/ files[t].pieces = 1 .. Pieces
        \/ \E u \in Uploading(t) : 1 .. written[u] \subseteq files[t].pieces
    BY <1>0, <1>3, <1>5 DEF DeployInv, FileInv
  <2>2. CASE files[t].pieces = 1 .. Pieces
    BY <1>0, <1>2, <2>2
  <2>3. ASSUME NEW u \in Uploading(t), 1 .. written[u] \subseteq files[t].pieces
        PROVE  1 .. written'[u] \subseteq files'[t].pieces
    <3>1. CASE u = s
      <4>1. t = mine
        BY <3>1 DEF Uploading
      <4>2. 1 .. written[s] + 1 = (1 .. written[s]) \cup {written[s] + 1}
        BY <1>0, PieceAssumption
      <4>3. QED
        BY <1>1, <1>2, <2>3, <3>1, <4>1, <4>2
    <3>2. CASE u # s
      BY <1>1, <1>2, <2>3, <3>2 DEF Uploading
    <3>3. QED
      BY <3>1, <3>2
  <2>4. QED
    BY <1>4, <2>1, <2>2, <2>3
<1>6. ModeInv'
  <2>1. \A u \in Servers : tool[u] \in Tools
    BY DEF TypeOK
  <2>2. QED
    BY <1>0, <1>3, <2>1 DEF DeployInv, ModeInv
<1>7. ListInv'
  BY <1>0, <1>3, ListKept DEF DeployInv
<1>8. QED
  BY <1>5, <1>6, <1>7 DEF DeployInv, FileInv

\* The last to truncate a binary leaves all of it.
LEMMA CloseKeeps ==
    ASSUME TypeOK, DeployInv, NEW s \in Servers, CloseBinary(s)
    PROVE  DeployInv'
<1>0. /\ place[s] = "write" /\ written[s] = Pieces
      /\ UNCHANGED <<tool, known, written, files, listing, torn>>
  BY DEF CloseBinary, host, past
<1>1. place'[s] = "chmod" /\ \A u \in Servers \ {s} : place'[u] = place[u]
  BY OthersKept DEF CloseBinary, Places
<1>2. ASSUME NEW t \in Tools, t \notin torn', files'[t].mode # "absent"
      PROVE  \/ files'[t].pieces = 1 .. Pieces
             \/ \E u \in Uploading(t)' : 1 .. written'[u] \subseteq files'[t].pieces
  <2>1. \/ files[t].pieces = 1 .. Pieces
        \/ \E u \in Uploading(t) : 1 .. written[u] \subseteq files[t].pieces
    BY <1>0, <1>2 DEF DeployInv, FileInv
  <2>2. ASSUME NEW u \in Uploading(t), 1 .. written[u] \subseteq files[t].pieces
        PROVE  u \in Uploading(t)' \/ files[t].pieces = 1 .. Pieces
    <3>1. files[t].pieces \subseteq 1 .. Pieces
      BY DEF TypeOK, File
    <3>2. CASE u = s
      BY <1>0, <2>2, <3>1, <3>2
    <3>3. CASE u # s
      BY <1>0, <1>1, <3>3 DEF Uploading
    <3>4. QED
      BY <3>2, <3>3
  <2>3. QED
    BY <1>0, <2>1, <2>2
<1>3. ModeInv'
  BY <1>0, <1>1 DEF DeployInv, ModeInv
<1>4. ListInv'
  <2>1. ModesGrow
    BY <1>0 DEF ModesGrow
  <2>2. QED
    BY <1>0, <2>1, ListKept DEF DeployInv
<1>5. QED
  BY <1>2, <1>3, <1>4 DEF DeployInv, FileInv

LEMMA ChmodKeeps ==
    ASSUME TypeOK, DeployInv, NEW s \in Servers, Chmod(s)
    PROVE  DeployInv'
<1> DEFINE mine == tool[s]
<1>0. /\ mine \in Tools /\ place[s] = "chmod"
      /\ UNCHANGED <<tool, known, written, listing, torn>>
  BY DEF TypeOK, Chmod, past
<1>1. place'[s] = "rewrite" /\ \A u \in Servers \ {s} : place'[u] = place[u]
  BY OthersKept DEF Chmod, Places
<1>2. /\ files'[mine].mode = "executable"
      /\ \A t \in Tools : files'[t].pieces = files[t].pieces
      /\ \A t \in Tools \ {mine} : files'[t] = files[t]
  BY <1>0 DEF TypeOK, Chmod, File
<1>3. files[mine].mode # "absent"
  BY <1>0 DEF DeployInv, ModeInv
<1>4. ModesGrow
  BY <1>0, <1>2 DEF ModesGrow
<1>5. \A t \in Tools : Uploading(t)' = Uploading(t)
  BY <1>0, <1>1 DEF Uploading
<1>6. FileInv'
  BY <1>0, <1>2, <1>3, <1>5 DEF DeployInv, FileInv
<1>7. ModeInv'
  <2>1. \A u \in Servers : tool[u] \in Tools
    BY DEF TypeOK
  <2>2. QED
    BY <1>0, <1>1, <1>2, <1>4, <2>1 DEF DeployInv, ModeInv, ModesGrow
<1>8. ListInv'
  BY <1>0, <1>4, ListKept DEF DeployInv
<1>9. QED
  BY <1>6, <1>7, <1>8 DEF DeployInv

LEMMA RewriteKeeps ==
    ASSUME TypeOK, DeployInv, NEW s \in Servers, RewriteManifest(s)
    PROVE  DeployInv'
<1>0. /\ place[s] = "rewrite" /\ listing' = Nothing
      /\ UNCHANGED <<tool, known, written, files, torn>>
  BY DEF RewriteManifest, TruncateManifest
<1>1. place'[s] = "save" /\ \A u \in Servers \ {s} : place'[u] = place[u]
  BY OthersKept DEF RewriteManifest, Places
<1>2. \A t \in Tools : Uploading(t)' = Uploading(t)
  BY <1>0, <1>1 DEF Uploading
<1>3. FileInv'
  BY <1>0, <1>2 DEF DeployInv, FileInv
<1>4. ModeInv'
  BY <1>0, <1>1 DEF DeployInv, ModeInv
<1>5. ListInv'
  <2>1. ModesGrow
    BY <1>0 DEF ModesGrow
  <2>2. QED
    BY <1>0, <2>1, ListKept DEF DeployInv
<1>6. QED
  BY <1>3, <1>4, <1>5 DEF DeployInv

\* Writing the manifest, with or without an answer.
LEMMA PutKeeps ==
    ASSUME TypeOK, DeployInv, NEW s \in Servers, place[s] = "save", Put(Upsert(s)),
           NEW next \in {"execute", "failed"}, Goes(s, next),
           known' = [known EXCEPT ![s] = Nothing],
           UNCHANGED <<tool, written, files, torn>>
    PROVE  DeployInv'
<1>1. place'[s] = next /\ \A u \in Servers \ {s} : place'[u] = place[u]
  BY OthersKept DEF Places, AtRest
<1>2. \A t \in Tools : Uploading(t)' = Uploading(t)
  BY <1>1 DEF Uploading
<1>3. FileInv'
  BY <1>2 DEF DeployInv, FileInv
<1>4. ModeInv'
  BY <1>1 DEF DeployInv, ModeInv
<1>5. ASSUME NEW t \in Tools, Lists(t)' PROVE files'[t].mode = "executable"
  <2>1. Upsert(s)[t.name] = t.version
    BY <1>5 DEF Lists, Put
  <2>2. t = tool[s] \/ known[s][t.name] = t.version
    BY <2>1, UpsertLists
  <2>3. QED
    BY <2>2 DEF DeployInv, ModeInv, ListInv
<1>6. ASSUME NEW t \in Tools, NEW u \in Servers, known'[u][t.name] = t.version
      PROVE  files'[t].mode = "executable"
  <2>1. u # s
    BY <1>6, NothingListed DEF TypeOK
  <2>2. known'[u] = known[u]
    BY <2>1 DEF TypeOK
  <2>3. QED
    BY <1>6, <2>2 DEF DeployInv, ListInv
<1>7. QED
  BY <1>3, <1>4, <1>5, <1>6 DEF DeployInv, ListInv

LEMMA LoseKeeps ==
    ASSUME TypeOK, DeployInv, NEW s \in Servers, Lose(s)
    PROVE  DeployInv'
<1> DEFINE mine == tool[s]
<1>0. /\ mine \in Tools /\ Goes(s, "failed") /\ known' = [known EXCEPT ![s] = Nothing]
      /\ UNCHANGED <<tool, written>>
  BY DEF TypeOK, Lose, Ends
<1>1. place'[s] = "failed" /\ \A u \in Servers \ {s} : place'[u] = place[u]
  BY <1>0, OthersKept DEF Places, AtRest
<1>2. CASE place[s] = "save" /\ Put(Upsert(s)) /\ UNCHANGED files
  BY <1>0, <1>2, PutKeeps DEF Lose
<1>3. CASE \/ UNCHANGED <<files, listing>>
           \/ /\ place[s] = "create" /\ files' = Truncated(mine)
              /\ UNCHANGED listing
           \/ place[s] = "rewrite" /\ listing' = Nothing /\ UNCHANGED files
  <2>1. /\ ModesGrow
        /\ \A t \in Tools \ {mine} : files'[t] = files[t]
        /\ files' # files => place[s] = "create"
    BY <1>0, <1>3, TruncatedType DEF ModesGrow
  <2>2. ListInv'
    BY <1>0, <1>3, <2>1, ListKept DEF DeployInv
  <2>3. ModeInv'
    <3>1. \A u \in Servers : tool[u] \in Tools
      BY DEF TypeOK
    <3>2. QED
      BY <1>0, <1>1, <2>1, <3>1 DEF DeployInv, ModeInv, ModesGrow
  <2>4. ASSUME NEW t \in Tools, t \notin torn', files'[t].mode # "absent"
        PROVE  \/ files'[t].pieces = 1 .. Pieces
               \/ \E u \in Uploading(t)' : 1 .. written'[u] \subseteq files'[t].pieces
    <3>1. torn \subseteq torn' /\ (place[s] \in {"create", "write"} => mine \in torn')
      BY DEF Lose
    <3>2. files'[t] = files[t]
      BY <2>1, <2>4, <3>1
    <3>3. s \notin Uploading(t)
      BY <2>4, <3>1 DEF Uploading
    <3>4. Uploading(t) \subseteq Uploading(t)'
      BY <1>0, <1>1, <3>3 DEF Uploading
    <3>5. QED
      BY <1>0, <2>4, <3>1, <3>2, <3>4 DEF DeployInv, FileInv
  <2>5. QED
    BY <2>2, <2>3, <2>4 DEF DeployInv, FileInv
<1>4. QED
  BY <1>2, <1>3 DEF Lose, TruncateManifest, host

LEMMA DeployStep == TypeOK /\ DeployInv /\ [Next]_vars => DeployInv'
<1> SUFFICES ASSUME TypeOK, DeployInv, [Next]_vars PROVE DeployInv'
  OBVIOUS
<1>1. ASSUME NEW s \in Servers,
             Start(s) \/ ReadManifest(s) \/ Build(s) \/ Execute(s) \/ Finish(s)
      PROVE  DeployInv'
  <2>1. UNCHANGED <<files, listing, written, torn>> /\ place[s] # "write"
    BY <1>1 DEF Start, ReadManifest, Build, Execute, Finish, host, past, AtRest
  <2>2. \E next \in Places \ {"write", "chmod", "rewrite", "save"} : Goes(s, next)
    BY <1>1 DEF Start, ReadManifest, Build, Execute, Finish, Ends, Places, AtRest
  <2>3. \/ UNCHANGED tool
        \/ \E t \in Tools : tool' = [tool EXCEPT ![s] = t]
    BY <1>1 DEF Start, ReadManifest, Build, Execute, Finish
  <2>4. \/ UNCHANGED known
        \/ known' = [known EXCEPT ![s] = Nothing]
        \/ known' = [known EXCEPT ![s] = listing]
    BY <1>1 DEF Start, ReadManifest, Build, Execute, Finish, Ends
  <2>5. QED
    BY <2>1, <2>2, <2>3, <2>4, HostKept
<1>2. ASSUME NEW s \in Servers,
             CreateBinary(s) \/ WriteBinary(s) \/ CloseBinary(s) \/ Chmod(s)
      PROVE  DeployInv'
  BY <1>2, CreateKeeps, WriteKeeps, CloseKeeps, ChmodKeeps
<1>3. ASSUME NEW s \in Servers, RewriteManifest(s) \/ Lose(s) PROVE DeployInv'
  BY <1>3, RewriteKeeps, LoseKeeps
<1>4. ASSUME NEW s \in Servers, SaveManifest(s) PROVE DeployInv'
  BY <1>4, PutKeeps DEF SaveManifest, past
<1>5. CASE UNCHANGED vars
  BY <1>5 DEF vars, host, past, DeployInv, FileInv, ModeInv, ListInv, Lists, Uploading
<1>6. QED
  BY <1>1, <1>2, <1>3, <1>4, <1>5 DEF Next

\* What the manifest lists is there, complete and executable, unless somebody is
\* uploading it again or was cut off at that (deployer.go:82-101), for any number of
\* servers and tools.
THEOREM ListedAlwaysDeployed == Spec => []ListedIsDeployed
<1>1. Init => DeployInv
  BY NothingListed
  DEF Init, DeployInv, FileInv, ModeInv, ListInv, Lists
<1>2. TypeOK /\ DeployInv /\ [Next]_vars => DeployInv'
  BY DeployStep
<1>3. DeployInv => ListedIsDeployed
  <2> SUFFICES ASSUME DeployInv, NEW t \in Tools, Lists(t), t \notin torn
               PROVE  IsDeployed(t) \/ Uploading(t) # {}
    BY DEF ListedIsDeployed
  <2>1. files[t].mode = "executable"
    BY DEF DeployInv, ListInv
  <2>2. files[t].pieces = 1 .. Pieces \/ Uploading(t) # {}
    BY <2>1 DEF DeployInv, FileInv
  <2>3. QED
    BY <2>1, <2>2 DEF IsDeployed
<1>4. QED
  BY <1>1, <1>2, <1>3, TypeCorrect, PTL DEF Spec

-----------------------------------------------------------------------------
\* As long as no two rewrote the manifest at once, the one that does finds it empty.
AloneInv ==
    /\ GarbledByOverlap
    /\ ~overlapped => /\ \A s, u \in Rewriting : s = u
                      /\ Rewriting # {} => listing = Nothing

LEMMA AloneStep == TypeOK /\ AloneInv /\ [Next]_vars => AloneInv'
<1> SUFFICES ASSUME TypeOK, AloneInv, [Next]_vars PROVE AloneInv'
  OBVIOUS
<1>1. ASSUME NEW s \in Servers, place[s] # "save",
             \E next \in Places \ {"save"} : Goes(s, next),
             UNCHANGED <<listing, garbled, overlapped>>
      PROVE  AloneInv'
  <2>1. Rewriting' = Rewriting
    BY <1>1 DEF TypeOK, Goes, Rewriting
  <2>2. QED
    BY <1>1, <2>1 DEF AloneInv, GarbledByOverlap
<1>2. ASSUME NEW s \in Servers,
             \/ Start(s) \/ ReadManifest(s) \/ Build(s) \/ CreateBinary(s)
             \/ CloseBinary(s) \/ Chmod(s) \/ Execute(s) \/ Finish(s)
      PROVE  AloneInv'
  <2>1. place[s] # "save" /\ UNCHANGED <<listing, garbled, overlapped>>
    BY <1>2 DEF Start, ReadManifest, Build, CreateBinary, CloseBinary, Chmod, Execute,
                Finish, host, past, AtRest
  <2>2. \E next \in Places \ {"save"} : Goes(s, next)
    BY <1>2 DEF Start, ReadManifest, Build, CreateBinary, CloseBinary, Chmod, Execute,
                Finish, Ends, Places, AtRest
  <2>3. QED
    BY <1>1, <2>1, <2>2
<1>3. ASSUME NEW s \in Servers, RewriteManifest(s) PROVE AloneInv'
  <2>1. /\ listing' = Nothing /\ garbled' = FALSE
        /\ overlapped' = (overlapped \/ Rewriting # {})
        /\ Goes(s, "save")
    BY <1>3 DEF RewriteManifest, TruncateManifest
  <2>2. Rewriting' = Rewriting \cup {s}
    BY <2>1 DEF TypeOK, Goes, Rewriting
  <2>3. QED
    BY <2>1, <2>2 DEF AloneInv, GarbledByOverlap
\* A text put into an empty file is the file.
<1>4. ASSUME NEW s \in Servers, place[s] = "save", Put(Upsert(s)),
             \E next \in Places \ {"save"} : Goes(s, next), UNCHANGED overlapped
      PROVE  AloneInv'
  <2>1. Rewriting' = Rewriting \ {s} /\ s \in Rewriting
    BY <1>4 DEF TypeOK, Goes, Rewriting
  <2>2. ~overlapped => Rewriting' = {} /\ ~garbled'
    BY <1>4, <2>1 DEF AloneInv, GarbledByOverlap, Put
  <2>3. QED
    BY <1>4, <2>2 DEF AloneInv, GarbledByOverlap
<1>5. ASSUME NEW s \in Servers, SaveManifest(s) PROVE AloneInv'
  BY <1>4, <1>5 DEF SaveManifest, past, Places
<1>6. ASSUME NEW s \in Servers, Lose(s) PROVE AloneInv'
  <2>1. Goes(s, "failed") /\ "failed" \in Places \ {"save"}
    BY <1>6 DEF Lose, Ends, Places, AtRest
  <2>2. Rewriting' = Rewriting \ {s}
    BY <2>1 DEF TypeOK, Goes, Rewriting
  <2>3. CASE place[s] = "save" /\ Put(Upsert(s))
    BY <1>4, <1>6, <2>1, <2>3 DEF Lose, TypeOK
  <2>4. CASE UNCHANGED <<listing, garbled>>
    BY <1>6, <2>2, <2>4 DEF Lose, AloneInv, GarbledByOverlap
  <2>5. CASE listing' = Nothing /\ garbled' = FALSE
    BY <1>6, <2>2, <2>5 DEF Lose, AloneInv, GarbledByOverlap
  <2>6. QED
    BY <1>6, <2>3, <2>4, <2>5 DEF Lose, TruncateManifest, host
<1>7. ASSUME NEW s \in Servers, WriteBinary(s) PROVE AloneInv'
  BY <1>7 DEF WriteBinary, past, AloneInv, GarbledByOverlap, Rewriting
<1>8. CASE UNCHANGED vars
  BY <1>8 DEF vars, host, past, AloneInv, GarbledByOverlap, Rewriting
<1>9. QED
  BY <1>2, <1>3, <1>5, <1>6, <1>7, <1>8 DEF Next

\* Only two who rewrite the manifest at once (manifest.go:81-88) can leave a text that
\* is not JSON behind.
THEOREM GarbledOnlyByOverlap == Spec => []GarbledByOverlap
<1>1. Init => AloneInv
  BY DEF Init, AloneInv, GarbledByOverlap, Rewriting
<1>2. TypeOK /\ AloneInv /\ [Next]_vars => AloneInv'
  BY AloneStep
<1>3. AloneInv => GarbledByOverlap
  BY DEF AloneInv
<1>4. QED
  BY <1>1, <1>2, <1>3, TypeCorrect, PTL DEF Spec
=============================================================================
