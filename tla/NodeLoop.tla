------------------------------ MODULE NodeLoop ------------------------------
(***************************************************************************)
(* The main loop of a node (src/bin/main.rs): one tokio::select! over the  *)
(* web UI's server, standard input, the Swarm's events and the channels.   *)
(* A turn of the loop takes one branch and runs its body to the end.  The  *)
(* body of the UI's branch is a whole WebSocket session                    *)
(* (src/bin/ui/web.rs), with a loop of its own.  What the node listens on  *)
(* decides whether the command "z" leaves the loop.                        *)
(***************************************************************************)
EXTENDS Integers, Sequences

CONSTANTS
  MaxLines,   \* BOUND: lines that wait
  MaxFrames   \* BOUND: frames that wait

ASSUME LoopBoundAssumption == MaxLines \in Nat /\ MaxFrames \in Nat

VARIABLES
  network_config, \* the modes of this start
  loop,         \* what the main task is in, or how it ended
  listeners,    \* what the Swarm listens on
  listener_ids, \* of the behaviour's config: what was announced
  lines,        \* typed and not read
  work,         \* does an answer, broadcast, tick or other Swarm event wait?
  client,       \* the UI client
  incoming,     \* frames the session has not read
  rx,           \* frames read and not handled
  closing       \* has the session read the connection's end?

ui == <<client, incoming, rx, closing>>
net == <<listeners, listener_ids>>
vars == <<network_config, loop, listeners, listener_ids, lines, work, client,
          incoming, rx, closing>>

Listener == {"ipv4", "ipv6", "relay"}
Line == {"z", "command", "eof"}
\* What to_text makes of a frame: a command that only asks, one that sets the
\* Swarm to work, JSON that is no command, what is no JSON, and what is no text
\* at all.  The text of a WebSocket's close is its reason, a string.
Text == {"ask", "act", "json", "other", "bytes"}
Frame == {f \in [text : Text, close : BOOLEAN] : f.close => f.text # "bytes"}
Running == {"start", "select", "handshake", "session"}
Ended == {"left", "listen_panic", "relay_panic", "server_panic", "stdin_panic",
          "parse_panic", "handshake_panic", "text_panic", "send_panic"}

Init ==
  /\ network_config \in [server : BOOLEAN, relay_dial : BOOLEAN, ipv6 : BOOLEAN]
  /\ loop = "start"
  /\ listeners = {} /\ listener_ids = {}
  /\ lines = <<>> /\ work = FALSE
  /\ client = "none" /\ incoming = <<>> /\ rx = <<>> /\ closing = FALSE

-----------------------------------------------------------------------------
(* Listeners *)

RelayListen == ~ network_config.server /\ ~ network_config.relay_dial

\* start_listening and main's unwraps: up are the listeners that could be set up.
StartListening ==
  /\ loop = "start"
  /\ \E up \in SUBSET {"ipv4", "ipv6"} :
       /\ listeners' = up \cup IF RelayListen THEN {"relay"} ELSE {}
       /\ loop' = IF "ipv4" \in up /\ (network_config.ipv6 => "ipv6" \in up)
                  THEN "select" ELSE "listen_panic"
  /\ UNCHANGED <<network_config, listener_ids, lines, work>>
  /\ UNCHANGED ui

\* A turn of the loop takes a branch and drops the futures of the others: the
\* UI's port is bound anew every turn, a client in its queue is cut off.
Turn ==
  /\ loop = "select"
  /\ client' = IF client = "connecting" THEN "none" ELSE client
  /\ UNCHANGED <<network_config, incoming, rx, closing>>

\* start's unwraps of bind and accept, met anew in every turn.
ServerPanic ==
  /\ Turn
  /\ loop' = "server_panic"
  /\ UNCHANGED <<listeners, listener_ids, lines, work>>

NewListenAddr_any(l) ==
  /\ Turn
  /\ l \in listeners \ listener_ids
  /\ listener_ids' = listener_ids \cup {l}
  /\ listeners' = listeners \ (listener_ids' \ {l})
  /\ loop' = "select"
  /\ UNCHANGED <<lines, work>>
NewListenAddr_early(l) ==
  /\ Turn
  /\ l \in listeners \ listener_ids
  /\ listener_ids' = listener_ids \cup {l}
  /\ listeners' = listeners \ (listener_ids' \ {"relay"})
  /\ loop' = "select"
  /\ UNCHANGED <<lines, work>>
\* The first address of l; the relay's takes the place of those announced.
\* In listen mode the handler asks for the relayed address, which a server,
\* having no boot node, does not have.
NewListenAddr(l) ==
  /\ Turn
  /\ l \in listeners \ listener_ids
  /\ IF ~ network_config.relay_dial /\ network_config.server
     THEN loop' = "relay_panic" /\ UNCHANGED listeners
     ELSE /\ loop' = "select"
          /\ listeners' = IF l = "relay" THEN listeners \ (listener_ids \ {l}) ELSE listeners
  /\ listener_ids' = listener_ids \cup {l}
  /\ UNCHANGED <<lines, work>>

\* The connection to the relay breaks; ListenerClosed is only logged.
RelayLost ==
  /\ Turn
  /\ "relay" \in listeners
  /\ listeners' = listeners \ {"relay"}
  /\ loop' = "select"
  /\ UNCHANGED <<listener_ids, lines, work>>

-----------------------------------------------------------------------------
(* Lines and the other branches *)

Type(line) ==
  /\ Len(lines) < MaxLines /\ loop \notin Ended
  /\ ~ \E i \in DOMAIN lines : lines[i] = "eof"
  /\ lines' = Append(lines, line)
  /\ UNCHANGED <<network_config, loop, work>>
  /\ UNCHANGED net /\ UNCHANGED ui

Arrive ==
  /\ ~ work /\ loop \notin Ended
  /\ work' = TRUE
  /\ UNCHANGED <<network_config, loop, lines>>
  /\ UNCHANGED net /\ UNCHANGED ui

UserInput(line) ==
  /\ Turn
  /\ lines # <<>> /\ Head(lines) = line
  /\ lines' = Tail(lines)
  /\ UNCHANGED <<listener_ids, work>>

\* "z": the loop is left when the listeners of the start were there to remove.
Quit ==
  /\ UserInput("z")
  /\ loop' = IF /\ "ipv4" \in listeners
                /\ network_config.ipv6 => "ipv6" \in listeners
             THEN "left" ELSE "select"
  /\ listeners' = listeners \ ({"ipv4"} \cup IF network_config.ipv6 THEN {"ipv6"} ELSE {})

Command ==
  /\ UserInput("command")
  /\ loop' = "select"
  /\ UNCHANGED listeners

\* "ping" and "delete r" unwrap the parse of their argument.
CommandPanic ==
  /\ UserInput("command")
  /\ loop' = "parse_panic"
  /\ UNCHANGED listeners

\* next_line's None meets an unwrap.
EndOfInput ==
  /\ UserInput("eof")
  /\ loop' = "stdin_panic"
  /\ UNCHANGED listeners

\* What waits at another branch is handled; what else waits Arrives again.
DoWork ==
  /\ Turn
  /\ work
  /\ work' = FALSE
  /\ loop' = "select"
  /\ UNCHANGED <<listener_ids, listeners, lines>>

-----------------------------------------------------------------------------
(* A UI client and its session *)

Outside == UNCHANGED <<network_config, lines>> /\ UNCHANGED net

ClientConnects ==
  /\ client = "none" /\ loop = "select"
  /\ client' = "connecting"
  /\ UNCHANGED <<loop, work, incoming, rx, closing>> /\ Outside

ClientSends(f) ==
  /\ client = "open" /\ Len(incoming) + Len(rx) < MaxFrames
  /\ incoming' = Append(incoming, f)
  /\ client' = IF ~ f.close THEN "open"
               ELSE IF f.text = "other" THEN "closing" ELSE "closing_json"
  /\ UNCHANGED <<loop, work, rx, closing>> /\ Outside

\* The client's end of the connection goes without a word.
ClientVanishes ==
  /\ client \in {"connecting", "open", "closing", "closing_json"} /\ loop \in {"handshake", "session"}
  /\ client' = "gone"
  /\ UNCHANGED <<loop, work, incoming, rx, closing>> /\ Outside

Accept ==
  /\ loop = "select" /\ client = "connecting"
  /\ loop' = "handshake"
  /\ UNCHANGED <<work, client, incoming, rx, closing>> /\ Outside

\* accept_async, and its unwrap: a client may send what is no handshake, or go.
\* There is no timeout: one that says nothing keeps the loop here.
Handshake ==
  /\ loop = "handshake"
  /\ \/ client = "connecting" /\ client' = "open" /\ loop' = "session"
     \/ loop' = "handshake_panic" /\ UNCHANGED client
  /\ UNCHANGED <<work, incoming, rx, closing>> /\ Outside

Session == loop = "session" /\ Outside

ReadFrame ==
  /\ Session
  /\ incoming # <<>>
  /\ incoming' = Tail(incoming)
  /\ rx' = Append(rx, Head(incoming))
  /\ closing' = (closing \/ Head(incoming).close)
  /\ UNCHANGED <<loop, work, client>>

\* The error of a connection that is gone is printed; after it there is
\* nothing more to read, and the session goes on.
ReadEnd ==
  /\ Session
  /\ client = "gone" /\ incoming = <<>> /\ ~ closing
  /\ closing' = TRUE
  /\ UNCHANGED <<loop, work, client, incoming, rx>>

Close_keep ==
  /\ loop' = "select"
  /\ client' = "none" /\ incoming' = <<>> /\ closing' = FALSE
  /\ UNCHANGED rx
\* handle_connection returns: the connection and its queues are dropped.
Close ==
  /\ loop' = "select"
  /\ client' = "none" /\ incoming' = <<>> /\ rx' = <<>> /\ closing' = FALSE

\* handle_cmd: the command's effect, and the reply.
HandleCommand ==
  /\ Session
  /\ rx # <<>> /\ Head(rx).text \in {"ask", "act"}
  /\ ~ closing
  /\ work' = (work \/ Head(rx).text = "act")
  /\ rx' = Tail(rx)
  /\ UNCHANGED <<loop, client, incoming, closing>>

\* A reply to a connection whose end was read, or that is gone, meets an unwrap.
SendPanic ==
  /\ Session
  /\ rx # <<>> /\ Head(rx).text \in {"ask", "act"}
  /\ closing \/ client = "gone"
  /\ loop' = "send_panic"
  /\ UNCHANGED <<work, client, incoming, rx, closing>>

\* ping and get_nodes unwrap the parse of their argument.
RequestPanic ==
  /\ Session
  /\ rx # <<>> /\ Head(rx).text = "act"
  /\ loop' = "parse_panic"
  /\ UNCHANGED <<work, client, incoming, rx, closing>>

\* Also the close of a client that gives JSON as its reason: the session goes
\* on, and there is nothing more to read.
IgnoreJson ==
  /\ Session
  /\ rx # <<>> /\ Head(rx).text = "json"
  /\ rx' = Tail(rx)
  /\ UNCHANGED <<loop, work, client, incoming, closing>>

HandleText_stay ==
  /\ Session
  /\ rx # <<>> /\ Head(rx).text = "other"
  /\ rx' = Tail(rx)
  /\ UNCHANGED <<loop, work, client, incoming, closing>>
\* What is no JSON, such as the empty reason of a close, ends the session.
HandleText ==
  /\ Session
  /\ rx # <<>> /\ Head(rx).text = "other"
  /\ Close
  /\ UNCHANGED work

\* to_text's unwrap, of a binary frame, ping or pong that is not UTF-8.
TextPanic ==
  /\ Session
  /\ rx # <<>> /\ Head(rx).text = "bytes"
  /\ loop' = "text_panic"
  /\ UNCHANGED <<work, client, incoming, rx, closing>>

-----------------------------------------------------------------------------
ReadLine == Quit \/ Command \/ CommandPanic \/ EndOfInput

FromClient == ReadFrame \/ ReadEnd

FromQueue ==
  \/ HandleCommand \/ SendPanic \/ RequestPanic
  \/ IgnoreJson \/ HandleText \/ TextPanic

SwarmEvent == RelayLost \/ \E l \in Listener : NewListenAddr(l)

Environment ==
  \/ Arrive \/ ClientConnects \/ ClientVanishes
  \/ (\E line \in Line : Type(line)) \/ (\E f \in Frame : ClientSends(f))

Next ==
  \/ StartListening \/ ServerPanic \/ SwarmEvent \/ ReadLine \/ DoWork
  \/ Accept \/ Handshake \/ FromClient \/ FromQueue \/ Environment

Spec == Init /\ [][Next]_vars

\* select! picks a ready branch at random: none that stays ready is passed over
\* for ever.  Nothing is assumed of clients, not even that a handshake ends.
FairSpec ==
  /\ Spec
  /\ WF_vars(StartListening)
  /\ SF_vars(ReadLine) /\ SF_vars(DoWork)
  /\ WF_vars(FromClient) /\ WF_vars(FromQueue)

-----------------------------------------------------------------------------
(* Properties *)

\* The shape of the state; no session leaves anything to the next.
TypeOK ==
  /\ network_config \in [server : BOOLEAN, relay_dial : BOOLEAN, ipv6 : BOOLEAN]
  /\ loop \in Running \cup Ended
  /\ listeners \subseteq Listener /\ listener_ids \subseteq Listener
  /\ lines \in Seq(Line) /\ work \in BOOLEAN
  /\ client \in {"none", "connecting", "open", "closing", "closing_json", "gone"}
  /\ incoming \in Seq(Frame) /\ rx \in Seq(Frame) /\ closing \in BOOLEAN
  /\ Len(lines) <= MaxLines /\ Len(incoming) + Len(rx) <= MaxFrames
  /\ loop \in {"start", "select", "handshake"} => incoming = <<>> /\ rx = <<>> /\ ~ closing

\* A running node listens somewhere, unless its relay's address has taken the
\* place of its own: no other order of announcements and commands makes a node
\* that runs on unreachable.
NeverDeaf ==
  loop \in Running \ {"start"} /\ listeners = {} => "relay" \in listener_ids

\* "z" leaves the loop, unless the node listens on its relay: only the relay's
\* announcement takes the listeners that "z" wants to remove.
QuitLeaves ==
  [][lines # <<>> /\ Head(lines) = "z" /\ lines' = Tail(lines) =>
       loop' = "left" \/ "relay" \in listener_ids]_vars

\* The close of a client that gives no JSON as its reason is never overtaken nor
\* dropped: until the session is over it is the last of what waits, in the
\* connection or, once the session has read the end, in its queue, and a client
\* that goes on is not taken for gone.
CloseNotLost ==
  loop = "session" =>
    /\ client = "open" => ~ closing
    /\ client = "closing" =>
         LET waits == IF closing THEN rx ELSE incoming IN
         /\ waits # <<>> /\ waits[Len(waits)] = [text |-> "other", close |-> TRUE]
         /\ closing => incoming = <<>>

\* The session with a client that closes its WebSocket, with a reason that is
\* not JSON, comes to an end, in whatever order its frames are read and handled.
\* Of a reason that is JSON this is not so: see LoopServes.
SessionEnds == (loop = "session" /\ client = "closing") ~> (loop # "session" \/ client = "gone")

\* Every branch gets its turn: what waited behind a handshake or a session is
\* handled, unless the process ends or one client keeps the loop for ever.  It
\* can do so in four ways and no other: it says nothing in the handshake, it
\* stays, it vanishes, or it closes with JSON as its reason.
LoopServes ==
  \/ /\ <>[](lines = <<>>) \/ []<><<ReadLine>>_vars
     /\ <>[](~ work) \/ []<><<DoWork>>_vars
  \/ <>[](loop \in Ended)
  \/ <>[](loop = "handshake")
  \/ <>[](loop = "session" /\ client \in {"open", "gone", "closing_json"})

\* The reply to a command can be sent: the code unwraps it.
NoSendPanic == loop # "send_panic"
=============================================================================
