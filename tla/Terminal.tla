------------------------------ MODULE Terminal ------------------------------
(***************************************************************************)
(* The web terminal (terminal/ticket.go, handler.go, routes.go).  A user   *)
(* with write access to a connection mints a ticket; whoever shows it      *)
(* within its life opens a WebSocket, and the handler bridges the          *)
(* WebSocket to an SSH shell.  A bridge is four kinds of process: the      *)
(* handler, which reads the browser; the printer, which writes to it; and  *)
(* one copier of the SSH session for each output stream, which feeds the   *)
(* printer through a pipe.  Browsers, shells and Redis are the environment *)
(* and grants are not read after the ticket is minted.  What RemoteTools   *)
(* has too bears the terminal's name: SSHProofs extends both.              *)
(***************************************************************************)
EXTENDS Naturals, Sequences, FiniteSets

CONSTANTS
  Requests,    \* the WebSocket requests
  Tickets,     \* the tickets that can be minted
  Conns,       \* the SSH connections
  Writable,    \* those some user has write access to
  Streams,     \* stdout and stderr of a shell
  Kinds,       \* the browser's messages: "input" and others
  MaxInput,    \* bound: the messages of a browser
  MaxOutput,   \* bound: the pieces of output of a shell
  Window,      \* the input a shell can leave unread before a write waits
  MaxSockets,  \* bound: the WebSockets open
  MaxFailures    \* bound: the statements that fail and the connections deleted

VARIABLES
  ticket,      \* of a ticket: its state and the connection it was minted for
  rows,        \* the connections that exist
  at, ask,     \* of a request: where its handler is; the ticket and path it came with
  browser, inbox,          \* the other end of the WebSocket, its unread messages
  shell, stdin, chan,      \* the remote shell, its unread input, its uncopied output
  copier, pipe, printer,   \* the piece each copier writes; the pipe; the piece printed
  typed, emitted, shown,   \* how much was typed and output; the pieces shown
  together, kept,          \* requests that redeemed at once; tickets a failed DEL kept
  failures

tickets == <<ticket, rows, kept>>
bridge  == <<browser, inbox, shell, stdin, chan, copier, pipe, printer, typed, emitted, shown>>
terminalVars    == <<tickets, at, ask, bridge, together, failures>>

Idle  == "idle"
Free  == 0              \* a copier or a printer with no piece in hand
Done  == MaxOutput + 1  \* one that ended
Pieces == 1 .. MaxOutput
Up(r) == shell[r] = "up"
Running(r) == shell[r] # "none"

TerminalInit ==
  /\ ticket = [t \in Tickets |-> [state |-> "none"]]
  /\ rows = Conns
  /\ at = [r \in Requests |-> Idle] /\ ask = [r \in Requests |-> Idle]
  /\ browser = [r \in Requests |-> "none"] /\ inbox = [r \in Requests |-> <<>>]
  /\ shell = [r \in Requests |-> "none"] /\ stdin = [r \in Requests |-> 0]
  /\ chan = [r \in Requests |-> [s \in Streams |-> <<>>]]
  /\ copier = [r \in Requests |-> [s \in Streams |-> Free]]
  /\ pipe = [r \in Requests |-> TRUE] /\ printer = [r \in Requests |-> Free]
  /\ typed = [r \in Requests |-> 0] /\ emitted = [r \in Requests |-> 0]
  /\ shown = [r \in Requests |-> {}]
  /\ together = {} /\ kept = {} /\ failures = 0

Fault == failures < MaxFailures /\ failures' = failures + 1
Goto(r, there) == at' = [at EXCEPT ![r] = there]

-----------------------------------------------------------------------------
(* Tickets: POST terminal-ticket, behind RequireAccessLevelOnParam "write". *)

AskTicket(t, c) ==
  /\ ticket[t].state = "none" /\ c \in Writable
  /\ ticket' = [ticket EXCEPT ![t] = [state |-> "checked", conn |-> c]]
  /\ UNCHANGED <<rows, kept, at, ask, bridge, together, failures>>

(* SET with its life of 30 seconds; a failed one mints nothing. *)
Issue(t) ==
  /\ ticket[t].state = "checked"
  /\ \/ ticket' = [ticket EXCEPT ![t].state = "live"] /\ UNCHANGED failures
     \/ Fault /\ ticket' = [ticket EXCEPT ![t].state = "gone"]
  /\ UNCHANGED <<rows, kept, at, ask, bridge, together>>

Expire(t) ==
  /\ ticket[t].state = "live"
  /\ ticket' = [ticket EXCEPT ![t].state = "gone"]
  /\ UNCHANGED <<rows, kept, at, ask, bridge, together, failures>>

(* Others delete connections. *)
Delete ==
  /\ Fault /\ \E c \in rows : rows' = rows \ {c}
  /\ UNCHANGED <<ticket, kept, at, ask, bridge, together>>

-----------------------------------------------------------------------------
(* ServeWS: redeem, compare, load the connection, upgrade, dial. *)

Open(r, t, c) ==
  /\ at[r] = Idle /\ ticket[t].state \in {"live", "gone"}
  /\ Goto(r, "get") /\ ask' = [ask EXCEPT ![r] = [ticket |-> t, conn |-> c]]
  /\ UNCHANGED <<tickets, bridge, together, failures>>

(* GET of Redeem. *)
Get(r) ==
  /\ at[r] = "get"
  /\ \/ ticket[ask[r].ticket].state = "live" /\ Goto(r, "del") /\ UNCHANGED failures
     \/ ticket[ask[r].ticket].state = "gone" /\ Goto(r, "refused") /\ UNCHANGED failures
     \/ Fault /\ Goto(r, "refused")
  /\ together' = IF at'[r] # "del" THEN together ELSE together \cup
                   {{r, q} : q \in {q \in Requests \ {r} :
                                      at[q] = "del" /\ ask[q].ticket = ask[r].ticket}}
  /\ UNCHANGED <<tickets, ask, bridge>>

SameConn(r) == ticket[ask[r].ticket].conn = ask[r].conn

(* Mutant of Del: the ticket is left. *)
DelNothing(r) ==
  /\ at[r] = "del" /\ Goto(r, IF SameConn(r) THEN "row" ELSE "refused")
  /\ UNCHANGED <<tickets, ask, bridge, together, failures>>

(* DEL of Redeem, whose result is ignored, and the comparison with the path. *)
Del(r) ==
  /\ at[r] = "del" /\ Goto(r, IF SameConn(r) THEN "row" ELSE "refused")
  /\ \/ /\ ticket' = [ticket EXCEPT ![ask[r].ticket].state = "gone"]
        /\ UNCHANGED <<kept, failures>>
     \/ Fault /\ kept' = kept \cup {ask[r].ticket} /\ UNCHANGED ticket
  /\ UNCHANGED <<rows, ask, bridge, together>>

(* GetByID, DecryptPrivateKey and ParsePrivateKey. *)
LoadConnection(r) ==
  /\ at[r] = "row"
  /\ \/ ask[r].conn \in rows /\ Goto(r, "upgrade") /\ UNCHANGED failures
     \/ ask[r].conn \notin rows /\ Goto(r, "refused") /\ UNCHANGED failures
     \/ Fault /\ Goto(r, "refused")
  /\ UNCHANGED <<tickets, ask, bridge, together>>

Upgrade(r) ==
  /\ at[r] = "upgrade"
  /\ \/ /\ Cardinality({q \in Requests : browser[q] # "none"}) < MaxSockets
        /\ Goto(r, "dial") /\ browser' = [browser EXCEPT ![r] = "open"]
     \/ Goto(r, "refused") /\ UNCHANGED browser
  /\ UNCHANGED <<tickets, ask, together, failures, inbox, shell, stdin, chan, copier, pipe,
                 printer, typed, emitted, shown>>

(* What the deferred calls close when the handler returns. *)
Return(r) ==
  /\ Goto(r, "ended")
  /\ browser' = [browser EXCEPT ![r] = IF @ = "open" THEN "closed" ELSE @]
  /\ shell' = [shell EXCEPT ![r] = IF @ = "up" THEN "closed" ELSE @]

(* ssh.Dial, NewSession, RequestPty and Shell: the first to fail ends it. *)
StartShell(r) ==
  /\ at[r] = "dial"
  /\ \/ /\ Goto(r, "read") /\ shell' = [shell EXCEPT ![r] = "up"]
        /\ UNCHANGED browser
     \/ Return(r)
  /\ UNCHANGED <<tickets, ask, together, failures, inbox, stdin, chan, copier, pipe, printer,
                 typed, emitted, shown>>

-----------------------------------------------------------------------------
(* The bridge: the handler. *)

(* Mutant of CloseOut: the pipe stays open. *)
ForgetOut(r) == UNCHANGED pipe

CloseOut(r)  == pipe' = [pipe EXCEPT ![r] = FALSE]
LeaveLoop(r) == Goto(r, "wait") /\ CloseOut(r)

(* A message that is no JSON, or of another type, is passed over. *)
HandleMessage(r, kind) ==
  /\ inbox' = [inbox EXCEPT ![r] = Tail(@)] /\ UNCHANGED pipe
  /\ IF kind = "input" THEN Goto(r, "write") ELSE UNCHANGED at

(* Mutant of ReadMessage: a message that is no input ends the loop. *)
ReadMessageStrict(r) ==
  /\ at[r] = "read"
  /\ \/ inbox[r] # <<>> /\ Head(inbox[r]) = "input" /\ HandleMessage(r, "input")
     \/ inbox[r] # <<>> /\ Head(inbox[r]) # "input" /\ LeaveLoop(r) /\ UNCHANGED inbox
     \/ inbox[r] = <<>> /\ browser[r] = "left" /\ LeaveLoop(r) /\ UNCHANGED inbox
  /\ UNCHANGED <<tickets, ask, together, failures, browser, shell, stdin, chan, copier, printer,
                 typed, emitted, shown>>

ReadMessage(r) ==
  /\ at[r] = "read"
  /\ \/ inbox[r] # <<>> /\ HandleMessage(r, Head(inbox[r]))
     \/ inbox[r] = <<>> /\ browser[r] = "left" /\ LeaveLoop(r) /\ UNCHANGED inbox
  /\ UNCHANGED <<tickets, ask, together, failures, browser, shell, stdin, chan, copier, printer,
                 typed, emitted, shown>>

(* stdin.Write waits for the shell's window; its error is ignored. *)
WriteStdin(r) ==
  /\ at[r] = "write" /\ (Up(r) => stdin[r] < Window)
  /\ stdin' = [stdin EXCEPT ![r] = IF Up(r) THEN @ + 1 ELSE @]
  /\ Goto(r, "read")
  /\ UNCHANGED <<tickets, ask, together, failures, browser, inbox, shell, chan, copier, pipe,
                 printer, typed, emitted, shown>>

(* session.Wait: the exit status, then the end of every copier. *)
Wait(r) ==
  /\ at[r] = "wait" /\ ~Up(r) /\ \A s \in Streams : copier[r][s] = Done
  /\ Return(r)
  /\ UNCHANGED <<tickets, ask, together, failures, inbox, stdin, chan, copier, pipe, printer,
                 typed, emitted, shown>>

-----------------------------------------------------------------------------
(* The bridge: the copiers of the session and the printer. *)

(* A copier takes a piece of output, or ends with the channel. *)
TakeOutput(r, s) ==
  /\ Running(r) /\ copier[r][s] = Free
  /\ \/ /\ chan[r][s] # <<>>
        /\ copier' = [copier EXCEPT ![r][s] = Head(chan[r][s])]
        /\ chan' = [chan EXCEPT ![r][s] = Tail(@)]
     \/ /\ chan[r][s] = <<>> /\ ~Up(r)
        /\ copier' = [copier EXCEPT ![r][s] = Done] /\ UNCHANGED chan
  /\ UNCHANGED <<tickets, at, ask, together, failures, browser, inbox, shell, stdin, pipe, printer,
                 typed, emitted, shown>>

(* Its write ends when the printer reads it, or with an error once outW is closed. *)
WriteFails(r, s) ==
  /\ copier[r][s] \in Pieces /\ ~pipe[r]
  /\ copier' = [copier EXCEPT ![r][s] = Done]
  /\ UNCHANGED <<tickets, at, ask, together, failures, browser, inbox, shell, stdin, chan, pipe,
                 printer, typed, emitted, shown>>

ReadPipe(r, s) ==
  /\ printer[r] = Free /\ pipe[r] /\ copier[r][s] \in Pieces
  /\ printer' = [printer EXCEPT ![r] = copier[r][s]]
  /\ copier' = [copier EXCEPT ![r][s] = Free]
  /\ UNCHANGED <<tickets, at, ask, together, failures, browser, inbox, shell, stdin, chan, pipe,
                 typed, emitted, shown>>

(* WriteMessage to a browser that left fails, if not at once; and the end of the pipe. *)
WriteMessage(r) ==
  /\ \/ /\ printer[r] \in Pieces /\ browser[r] = "open"
        /\ shown' = [shown EXCEPT ![r] = @ \cup {printer[r]}]
        /\ printer' = [printer EXCEPT ![r] = Free]
     \/ /\ printer[r] \in Pieces /\ browser[r] # "open"
        /\ \E next \in {Free, Done} : printer' = [printer EXCEPT ![r] = next]
        /\ UNCHANGED shown
     \/ /\ printer[r] = Free /\ ~pipe[r] /\ Running(r)
        /\ printer' = [printer EXCEPT ![r] = Done] /\ UNCHANGED shown
  /\ UNCHANGED <<tickets, at, ask, together, failures, browser, inbox, shell, stdin, chan, copier,
                 pipe, typed, emitted>>

-----------------------------------------------------------------------------
(* The environment: the browser and the shell. *)

Type(r, kind) ==
  /\ browser[r] = "open" /\ typed[r] < MaxInput
  /\ typed' = [typed EXCEPT ![r] = @ + 1] /\ inbox' = [inbox EXCEPT ![r] = Append(@, kind)]
  /\ UNCHANGED <<tickets, at, ask, together, failures, browser, shell, stdin, chan, copier, pipe,
                 printer, emitted, shown>>

(* The tab is closed, or its connection breaks with messages under way. *)
Leave(r) ==
  /\ browser[r] = "open" /\ browser' = [browser EXCEPT ![r] = "left"]
  /\ \E n \in 0 .. Len(inbox[r]) : inbox' = [inbox EXCEPT ![r] = SubSeq(@, 1, n)]
  /\ UNCHANGED <<tickets, at, ask, together, failures, shell, stdin, chan, copier, pipe, printer,
                 typed, emitted, shown>>

Emit(r, s) ==
  /\ Up(r) /\ emitted[r] < MaxOutput
  /\ emitted' = [emitted EXCEPT ![r] = @ + 1]
  /\ chan' = [chan EXCEPT ![r][s] = Append(@, emitted[r] + 1)]
  /\ UNCHANGED <<tickets, at, ask, together, failures, browser, inbox, shell, stdin, copier, pipe,
                 printer, typed, shown>>

Consume(r) ==
  /\ Up(r) /\ stdin[r] > 0 /\ stdin' = [stdin EXCEPT ![r] = @ - 1]
  /\ UNCHANGED <<tickets, at, ask, together, failures, browser, inbox, shell, chan, copier, pipe,
                 printer, typed, emitted, shown>>

(* The shell exits with its output sent, or the SSH connection is lost with some of it. *)
EndShell(r) ==
  /\ Up(r)
  /\ \/ shell' = [shell EXCEPT ![r] = "exited"] /\ UNCHANGED chan
     \/ /\ shell' = [shell EXCEPT ![r] = "lost"]
        /\ chan' = [chan EXCEPT ![r] = [s \in Streams |-> <<>>]]
  /\ UNCHANGED <<tickets, at, ask, together, failures, browser, inbox, stdin, copier, pipe, printer,
                 typed, emitted, shown>>

-----------------------------------------------------------------------------
Serve(r)  == Get(r) \/ Del(r) \/ LoadConnection(r) \/ Upgrade(r) \/ StartShell(r)
Handle(r) == ReadMessage(r) \/ WriteStdin(r) \/ Wait(r)
Copy(r, s) == TakeOutput(r, s) \/ WriteFails(r, s)
Show(r)   == WriteMessage(r) \/ \E s \in Streams : ReadPipe(r, s)

World ==
  \/ \E t \in Tickets : Issue(t) \/ Expire(t) \/ \E c \in Conns : AskTicket(t, c)
  \/ \E r \in Requests, t \in Tickets, c \in Conns : Open(r, t, c)
  \/ Delete
  \/ \E r \in Requests : Leave(r) \/ Consume(r) \/ EndShell(r)
  \/ \E r \in Requests, k \in Kinds : Type(r, k)
  \/ \E r \in Requests, s \in Streams : Emit(r, s)

TerminalNext ==
  \/ World
  \/ \E r \in Requests : Serve(r) \/ Handle(r) \/ Show(r) \/ \E s \in Streams : Copy(r, s)

(* Go runs a goroutine that can go on; nothing is assumed of browsers and shells. *)
Fairness ==
  \A r \in Requests : /\ WF_terminalVars(Serve(r)) /\ WF_terminalVars(Handle(r))
                      /\ WF_terminalVars(Show(r))
                      /\ \A s \in Streams : WF_terminalVars(Copy(r, s))

TerminalSpec == TerminalInit /\ [][TerminalNext]_terminalVars /\ Fairness

-----------------------------------------------------------------------------
Redeemed(r) == at[r] \notin {Idle, "get", "del", "refused"}

(* One use: two requests get past Redeem with one ticket only when the     *)
(* second read it before the first deleted it, or when a DEL failed and    *)
(* the ticket lived on (ticket.go:54: a second call always fails).         *)
OneUse ==
  \A r, q \in Requests :
    (r # q /\ Redeemed(r) /\ Redeemed(q) /\ ask[r].ticket = ask[q].ticket)
      => {r, q} \in together \/ ask[r].ticket \in kept

(* A bridge whose browser left and whose shell ended returns: no copier    *)
(* is left writing to a pipe nobody reads (handler.go:197).                *)
BridgeReturns ==
  \A r \in Requests :
    (browser[r] = "left" /\ shell[r] \in {"exited", "lost"}) ~> at[r] = "ended"

(* All a shell wrote before it exited comes to be shown, unless the        *)
(* browser leaves: no message of the browser ends the bridge.              *)
OutputArrives ==
  \A r \in Requests :
    shell[r] = "exited" ~> (shown[r] = 1 .. emitted[r] \/ browser[r] = "left")

=============================================================================
