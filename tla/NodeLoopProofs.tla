-------------------------- MODULE NodeLoopProofs --------------------------
(***************************************************************************)
(* What TLAPS proves of NodeLoop for every bound: the type invariant, that *)
(* a running node is unreachable only after its relay took over, that "z"  *)
(* leaves the loop of every other node, and that a UI client's close, if   *)
(* its reason is no JSON, gets to the session behind all sent before it.  The two about       *)
(* listeners rest on one fact, Reachable: until the relay's address is     *)
(* announced a running node has all the listeners that "z" asks for.       *)
(***************************************************************************)
EXTENDS NodeLoop, SequenceTheorems, TLAPS

\* The listeners of the start are there, or the relay has taken over.
Reachable ==
  loop \in Running \ {"start"} =>
    \/ "relay" \in listener_ids
    \/ "ipv4" \in listeners /\ (network_config.ipv6 => "ipv6" \in listeners)

\* A client is connected only from its handshake to the end of its session.
Clients ==
  /\ loop \in {"start", "select"} => client \in {"none", "connecting"}
  /\ loop = "handshake" => client \in {"connecting", "gone"}

IndInv == TypeOK /\ Reachable /\ Clients

-----------------------------------------------------------------------------
(* Queues *)

\* Taking the first of a queue gives a queue, shorter by one.
LEMMA TailOfQueue ==
  ASSUME NEW S, NEW q \in Seq(S), q # <<>>
  PROVE  /\ Head(q) \in S /\ Tail(q) \in Seq(S)
         /\ Len(q) \in Nat /\ Len(q) > 0 /\ Len(Tail(q)) = Len(q) - 1
  <1>1. Len(q) \in Nat /\ Len(q) # 0
    BY EmptySeq, LenProperties
  <1>. QED  BY <1>1, HeadTailProperties

\* Queuing gives a queue, longer by one.
LEMMA AppendToQueue ==
  ASSUME NEW S, NEW q \in Seq(S), NEW e \in S
  PROVE  Append(q, e) \in Seq(S) /\ Len(q) \in Nat /\ Len(Append(q, e)) = Len(q) + 1
  BY AppendProperties, LenProperties

-----------------------------------------------------------------------------
(* The inductive invariant *)

LEMMA InitIndInv == Init => IndInv
  <1>. SUFFICES ASSUME Init PROVE IndInv
    OBVIOUS
  <1>1. <<>> \in Seq(Line) /\ <<>> \in Seq(Frame) /\ Len(<<>>) = 0
    OBVIOUS
  <1>2. TypeOK
    <2>1. work \in BOOLEAN /\ closing \in BOOLEAN /\ ~ closing
      BY Zenon DEF Init
    <2>. QED  BY <1>1, <2>1, LoopBoundAssumption DEF Init, TypeOK, Running, Ended, Listener
  <1>3. Reachable /\ Clients
    BY DEF Init, Reachable, Clients
  <1>. QED  BY <1>2, <1>3 DEF IndInv

\* The steps of the main loop proper: what the user interface keeps is left
\* alone, or there was no session.
LEMMA LoopSteps ==
  ASSUME IndInv,
         StartListening \/ ServerPanic \/ SwarmEvent \/ ReadLine \/ DoWork
  PROVE  IndInv'
  <1>. USE DEF IndInv
  <1>1. CASE StartListening
    <2>1. TypeOK'
      BY <1>1 DEF StartListening, TypeOK, Running, Ended, Listener, ui, RelayListen
    <2>2. Reachable' /\ Clients'
      BY <1>1 DEF StartListening, Reachable, Clients, Running, Ended, ui
    <2>. QED  BY <2>1, <2>2
  <1>2. CASE SwarmEvent
    <2>1. CASE RelayLost
      BY <1>2, <2>1 DEF RelayLost, Turn, TypeOK, Reachable, Clients, Running, Ended, Listener
    <2>2. ASSUME NEW l \in Listener, NewListenAddr(l) PROVE IndInv'
      BY <2>2 DEF NewListenAddr, Turn, TypeOK, Reachable, Clients, Running, Ended, Listener
    <2>. QED  BY <1>2, <2>1, <2>2 DEF SwarmEvent
  <1>3. CASE ReadLine
    <2>1. ASSUME NEW line, UserInput(line),
                 loop' \in {"select", "left", "parse_panic", "stdin_panic"},
                 listeners' \subseteq listeners
          PROVE  TypeOK'
      <3>1. lines' \in Seq(Line) /\ Len(lines') <= MaxLines
        BY <2>1, TailOfQueue, LoopBoundAssumption DEF UserInput, TypeOK
      <3>. QED  BY <2>1, <3>1 DEF UserInput, Turn, TypeOK, Running, Ended
    <2>2. CASE Quit
      <3>1. TypeOK'
        BY <2>1, <2>2 DEF Quit
      <3>2. Reachable' /\ Clients'
        BY <2>2 DEF Quit, UserInput, Turn, Reachable, Clients, Running, TypeOK
      <3>. QED  BY <3>1, <3>2
    <2>3. CASE Command \/ CommandPanic \/ EndOfInput
      <3>1. TypeOK'
        BY <2>1, <2>3 DEF Command, CommandPanic, EndOfInput
      <3>2. Reachable' /\ Clients'
        BY <2>3
           DEF Command, CommandPanic, EndOfInput, UserInput, Turn, Reachable, Clients, Running
      <3>. QED  BY <3>1, <3>2
    <2>. QED  BY <1>3, <2>2, <2>3 DEF ReadLine
  <1>4. CASE DoWork
    BY <1>4 DEF DoWork, Turn, TypeOK, Reachable, Clients, Running, Ended
  <1>5. CASE ServerPanic
    BY <1>5 DEF ServerPanic, Turn, TypeOK, Reachable, Clients, Running, Ended
  <1>. QED  BY <1>1, <1>2, <1>3, <1>4, <1>5

\* The steps of a session and of its start: the listeners are left alone.
LEMMA SessionSteps ==
  ASSUME IndInv,
         Accept \/ Handshake \/ FromClient \/ FromQueue
  PROVE  IndInv'
  <1>. USE DEF IndInv
  <1>1. CASE Accept
    BY <1>1 DEF Accept, Outside, net, TypeOK, Reachable, Clients, Running, Ended
  <1>2. CASE Handshake
    BY <1>2 DEF Handshake, Outside, net, TypeOK, Reachable, Clients, Running, Ended
  <1>3. CASE FromClient
    <2>1. CASE ReadFrame
      <3>1. /\ incoming' \in Seq(Frame) /\ rx' \in Seq(Frame)
            /\ Len(incoming') + Len(rx') <= MaxFrames
        BY <2>1, TailOfQueue, AppendToQueue, LoopBoundAssumption DEF ReadFrame, TypeOK
      <3>2. closing' \in BOOLEAN
        BY <2>1 DEF ReadFrame, TypeOK
      <3>. QED
        BY <2>1, <3>1, <3>2
           DEF ReadFrame, Session, Outside, net, TypeOK, Reachable, Clients, Running, Ended
    <2>2. CASE ReadEnd
      BY <2>2 DEF ReadEnd, Session, Outside, net, TypeOK, Reachable, Clients, Running, Ended
    <2>. QED  BY <1>3, <2>1, <2>2 DEF FromClient
  <1>4. CASE FromQueue
    <2>1. ASSUME rx # <<>>, rx' = Tail(rx), incoming' = incoming
          PROVE  rx' \in Seq(Frame) /\ Len(incoming') + Len(rx') <= MaxFrames
      BY <2>1, TailOfQueue, LenProperties, LoopBoundAssumption DEF TypeOK
    <2>2. CASE HandleCommand
      <3>1. work' \in BOOLEAN
        BY <2>2 DEF HandleCommand, TypeOK
      <3>. QED
        BY <2>1, <2>2, <3>1
           DEF HandleCommand, Session, Outside, net, TypeOK, Reachable, Clients, Running, Ended
    <2>3. CASE IgnoreJson
      BY <2>1, <2>3 DEF IgnoreJson, Session, Outside, net, TypeOK, Reachable, Clients, Running, Ended
    <2>4. CASE SendPanic \/ RequestPanic \/ TextPanic
      BY <2>4
         DEF SendPanic, RequestPanic, TextPanic, Session, Outside, net, TypeOK, Reachable, Clients, Running, Ended
    <2>5. CASE HandleText
      <3>1. <<>> \in Seq(Frame) /\ Len(<<>>) = 0
        OBVIOUS
      <3>2. closing' \in BOOLEAN /\ ~ closing'
        BY <2>5, Zenon DEF HandleText, Close
      <3>3. TypeOK'
        BY <2>5, <3>1, <3>2, LoopBoundAssumption
           DEF HandleText, Close, Session, Outside, net, TypeOK, Running, Ended
      <3>4. Reachable' /\ Clients'
        BY <2>5 DEF HandleText, Close, Session, Outside, net, Reachable, Clients, Running
      <3>. QED  BY <3>3, <3>4
    <2>. QED  BY <1>4, <2>2, <2>3, <2>4, <2>5 DEF FromQueue
  <1>. QED  BY <1>1, <1>2, <1>3, <1>4

\* The steps of clients, operator and network only queue something.
LEMMA EnvironmentSteps ==
  ASSUME IndInv, Environment
  PROVE  IndInv'
  <1>. USE DEF IndInv
  <1>1. CASE Arrive \/ ClientConnects \/ ClientVanishes
    <2>1. work' \in BOOLEAN
      BY <1>1, Zenon DEF Arrive, ClientConnects, ClientVanishes, TypeOK
    <2>2. CASE Arrive
      BY <2>1, <2>2 DEF Arrive, net, ui, TypeOK, Reachable, Clients, Running, Ended
    <2>3. CASE ClientConnects \/ ClientVanishes
      BY <2>1, <2>3
         DEF ClientConnects, ClientVanishes, Outside, net, TypeOK, Reachable, Clients, Running,
             Ended
    <2>. QED  BY <1>1, <2>2, <2>3
  <1>2. ASSUME NEW line \in Line, Type(line) PROVE IndInv'
    <2>1. lines' \in Seq(Line) /\ Len(lines') <= MaxLines
      BY <1>2, AppendToQueue, LoopBoundAssumption DEF Type, TypeOK
    <2>. QED  BY <1>2, <2>1 DEF Type, net, ui, TypeOK, Reachable, Clients, Running, Ended
  <1>3. ASSUME NEW f \in Frame, ClientSends(f) PROVE IndInv'
    <2>1. loop \notin {"start", "select", "handshake"}
      BY <1>3 DEF ClientSends, Clients
    <2>2. incoming' \in Seq(Frame) /\ Len(incoming') + Len(rx') <= MaxFrames
      BY <1>3, AppendToQueue, LenProperties, LoopBoundAssumption DEF ClientSends, TypeOK
    <2>. QED
      BY <1>3, <2>1, <2>2 DEF ClientSends, Outside, net, TypeOK, Reachable, Clients, Running, Ended
  <1>. QED  BY <1>1, <1>2, <1>3 DEF Environment

LEMMA NextIndInv == IndInv /\ [Next]_vars => IndInv'
  <1>. SUFFICES ASSUME IndInv, [Next]_vars PROVE IndInv'
    OBVIOUS
  <1>1. CASE Next
    BY <1>1, LoopSteps, SessionSteps, EnvironmentSteps DEF Next
  <1>2. CASE UNCHANGED vars
    BY <1>2 DEF vars, IndInv, TypeOK, Reachable, Clients
  <1>. QED  BY <1>1, <1>2

LEMMA Invariance == Spec => []IndInv
  BY InitIndInv, NextIndInv, PTL DEF Spec

-----------------------------------------------------------------------------
(* Theorems *)

\* The state keeps its shape, and no session leaves anything to the next, for
\* any number of waiting lines and frames.
THEOREM TypeCorrect == Spec => []TypeOK
  <1>1. IndInv => TypeOK
    BY DEF IndInv
  <1>. QED  BY <1>1, Invariance, PTL

\* No order of announcements, lines, events and sessions leaves a running node
\* without a listener before its relay took over (handler.rs:83-107).
THEOREM NeverDeafAlways == Spec => []NeverDeaf
  <1>1. IndInv => NeverDeaf
    BY DEF IndInv, Reachable, NeverDeaf
  <1>. QED  BY <1>1, Invariance, PTL

\* "z" leaves the loop of every node that does not listen on its relay
\* (main.rs:253-263).
THEOREM QuitAlwaysLeaves == Spec => QuitLeaves
  <1>. DEFINE Left ==
         lines # <<>> /\ Head(lines) = "z" /\ lines' = Tail(lines) =>
           loop' = "left" \/ "relay" \in listener_ids
  <1>1. IndInv /\ [Next]_vars => [Left]_vars
    <2>. SUFFICES ASSUME IndInv, Next,
                         lines # <<>>, Head(lines) = "z", lines' = Tail(lines)
                  PROVE  loop' = "left" \/ "relay" \in listener_ids
      OBVIOUS
    <2>1. Len(lines') # Len(lines) /\ lines' # lines
      BY TailOfQueue DEF IndInv, TypeOK
    <2>2. ~ \E line \in Line : Type(line)
      BY <2>1, AppendToQueue, TailOfQueue DEF IndInv, TypeOK, Type
    <2>3. ReadLine
      BY <2>1, <2>2
         DEF Next, SwarmEvent, StartListening, ServerPanic, RelayLost, NewListenAddr, DoWork, Accept, Handshake,
             FromClient, ReadFrame, ReadEnd, FromQueue, HandleCommand, SendPanic, RequestPanic,
             IgnoreJson, HandleText, TextPanic, Session, Outside, Environment, Arrive, ClientConnects,
             ClientVanishes, ClientSends
    <2>4. Quit
      BY <2>3 DEF ReadLine, Command, CommandPanic, EndOfInput, UserInput
    <2>. QED  BY <2>4 DEF Quit, UserInput, Turn, IndInv, Reachable, Running
  <1>. QED  BY <1>1, Invariance, PTL DEF Spec, QuitLeaves

-----------------------------------------------------------------------------
(* The close of a client *)

\* Nothing waits behind a close, and only a client that closed has sent one.
CloseIsLast ==
  \A i \in 1..Len(incoming) :
    incoming[i].close => i = Len(incoming) /\ client # "open"

\* The close whose reason is no JSON.
Goodbye == [text |-> "other", close |-> TRUE]

CloseInv == IndInv /\ CloseIsLast /\ CloseNotLost

\* What is left of a queue when its first is taken, place by place.
LEMMA TailPlaces ==
  ASSUME NEW S, NEW q \in Seq(S), q # <<>>
  PROVE  /\ Len(q) \in Nat /\ Len(Tail(q)) = Len(q) - 1 /\ Head(q) = q[1] /\ Len(q) > 0
         /\ \A i \in 1..Len(Tail(q)) : Tail(q)[i] = q[i + 1]
         /\ Tail(q) = <<>> <=> Len(q) = 1
  <1>1. Len(q) \in Nat /\ Len(q) # 0 /\ Tail(q) \in Seq(S) /\ Len(Tail(q)) = Len(q) - 1
    BY EmptySeq, LenProperties, HeadTailProperties
  <1>2. Tail(q) = <<>> <=> Len(Tail(q)) = 0
    BY <1>1, EmptySeq
  <1>. QED  BY <1>1, <1>2, HeadTailProperties

LEMMA SameUI ==
  ASSUME CloseInv, UNCHANGED <<incoming, rx, closing>>,
         client' = client \/ client' \notin {"open", "closing"},
         loop' = "session" => loop = "session"
  PROVE  CloseIsLast' /\ CloseNotLost'
  BY DEF CloseInv, CloseIsLast, CloseNotLost

LEMMA ReadFrameCloses ==
  ASSUME CloseInv, ReadFrame
  PROVE  CloseIsLast' /\ CloseNotLost'
  <1>1. /\ incoming \in Seq(Frame) /\ rx \in Seq(Frame) /\ incoming # <<>> /\ closing \in BOOLEAN
        /\ loop = "session"
    BY DEF CloseInv, IndInv, TypeOK, ReadFrame, Session
  <1>2. incoming' = Tail(incoming) /\ rx' = Append(rx, incoming[1]) /\ client' = client /\ loop' = loop
    BY DEF ReadFrame
  <1>3. /\ Len(incoming) \in Nat /\ Len(incoming) > 0 /\ Len(incoming') = Len(incoming) - 1
        /\ \A i \in 1..Len(incoming') : incoming'[i] = incoming[i + 1]
        /\ incoming' = <<>> <=> Len(incoming) = 1
    BY <1>1, <1>2, TailPlaces
  <1>4. rx' # <<>> /\ rx'[Len(rx')] = incoming[1]
    BY <1>1, <1>2, AppendProperties, LenProperties
  <1>5. closing' <=> closing \/ incoming[1].close
    <2>1. Head(incoming) = incoming[1]
      BY <1>1, TailPlaces
    <2>2. closing' = (closing \/ Head(incoming).close)
      BY DEF ReadFrame
    <2>. QED  BY <2>1, <2>2, Zenon
  <1>6. CloseIsLast'
    BY <1>2, <1>3 DEF CloseInv, CloseIsLast
  <1>7. client = "open" => ~ closing'
    BY <1>1, <1>3, <1>5 DEF CloseInv, CloseIsLast, CloseNotLost
  <1>8. CASE client = "closing"
    <2>1. ~ closing /\ incoming[Len(incoming)] = Goodbye
      BY <1>1, <1>8 DEF CloseInv, CloseNotLost, Goodbye
    <2>2. incoming[1].close <=> Len(incoming) = 1
      BY <1>3, <2>1 DEF CloseInv, CloseIsLast, Goodbye
    <2>3. CASE Len(incoming) = 1
      BY <1>2, <1>3, <1>4, <1>5, <1>6, <1>8, <2>1, <2>2, <2>3 DEF CloseNotLost, Goodbye
    <2>4. CASE Len(incoming) # 1
      <3>1. ~ closing' /\ incoming' # <<>> /\ incoming'[Len(incoming')] = Goodbye
        BY <1>3, <1>5, <2>1, <2>2, <2>4
      <3>. QED  BY <1>2, <1>6, <1>8, <3>1 DEF CloseNotLost, Goodbye
    <2>. QED  BY <2>3, <2>4
  <1>. QED  BY <1>2, <1>6, <1>7, <1>8 DEF CloseNotLost

LEMMA QueueCloses ==
  ASSUME CloseInv, FromQueue
  PROVE  CloseIsLast' /\ CloseNotLost'
  <1>1. CASE HandleCommand \/ IgnoreJson
    <2>1. /\ rx' = Tail(rx) /\ rx # <<>> /\ Head(rx) # Goodbye
          /\ UNCHANGED <<client, incoming, closing, loop>>
      BY <1>1 DEF HandleCommand, IgnoreJson, Goodbye
    <2>2. rx \in Seq(Frame)
      BY DEF CloseInv, IndInv, TypeOK
    <2>3. /\ Len(rx) \in Nat /\ Len(rx) > 0 /\ Head(rx) = rx[1] /\ Len(rx') = Len(rx) - 1
          /\ \A i \in 1..Len(rx') : rx'[i] = rx[i + 1]
          /\ rx' = <<>> <=> Len(rx) = 1
      BY <2>1, <2>2, TailPlaces
    <2>4. rx[Len(rx)] = Goodbye => rx' # <<>> /\ rx'[Len(rx')] = Goodbye
      BY <2>1, <2>3
    <2>. QED  BY <2>1, <2>4 DEF CloseInv, CloseIsLast, CloseNotLost, Goodbye
  <1>2. CASE SendPanic \/ RequestPanic \/ TextPanic
    BY <1>2, SameUI DEF SendPanic, RequestPanic, TextPanic
  <1>3. CASE HandleText
    <2>1. incoming' = <<>> /\ loop' = "select"
      BY <1>3 DEF HandleText, Close
    <2>. QED  BY <2>1 DEF CloseIsLast, CloseNotLost
  <1>. QED  BY <1>1, <1>2, <1>3 DEF FromQueue

LEMMA ClientSendsCloses ==
  ASSUME CloseInv, NEW f \in Frame, ClientSends(f)
  PROVE  CloseIsLast' /\ CloseNotLost'
  <1>1. incoming \in Seq(Frame) /\ closing \in BOOLEAN
    BY DEF CloseInv, IndInv, TypeOK
  <1>2. /\ client = "open" /\ incoming' = Append(incoming, f)
        /\ client' = (IF ~ f.close THEN "open"
                      ELSE IF f.text = "other" THEN "closing" ELSE "closing_json")
        /\ UNCHANGED <<rx, closing, loop>>
    BY DEF ClientSends
  <1>3. /\ Len(incoming) \in Nat /\ Len(incoming') = Len(incoming) + 1
        /\ incoming'[Len(incoming')] = f /\ incoming' # <<>>
        /\ \A i \in 1..Len(incoming) : incoming'[i] = incoming[i]
    BY <1>1, <1>2, AppendProperties, LenProperties
  <1>4. \A i \in 1..Len(incoming) : ~ incoming[i].close
    BY <1>2 DEF CloseInv, CloseIsLast
  <1>5. CloseIsLast'
    BY <1>2, <1>3, <1>4 DEF CloseIsLast
  <1>6. client' = "closing" => f = Goodbye
    BY <1>2 DEF Goodbye, Frame
  <1>7. CloseNotLost'
    BY <1>2, <1>3, <1>6 DEF CloseInv, CloseNotLost, Goodbye
  <1>. QED  BY <1>5, <1>7

LEMMA StepCloses == CloseInv /\ [Next]_vars => CloseIsLast' /\ CloseNotLost'
  <1>. SUFFICES ASSUME CloseInv, [Next]_vars PROVE CloseIsLast' /\ CloseNotLost'
    OBVIOUS
  <1>1. CASE StartListening \/ ServerPanic \/ DoWork \/ ReadLine \/ SwarmEvent
    <2>1. UNCHANGED <<incoming, rx, closing>> /\ loop' # "session"
      BY <1>1 DEF StartListening, ServerPanic, DoWork, ReadLine, SwarmEvent, Quit, Command, CommandPanic,
                  EndOfInput, UserInput, RelayLost, NewListenAddr, Turn, ui
    <2>2. client' = client \/ client' \notin {"open", "closing"}
      BY <1>1 DEF StartListening, ServerPanic, DoWork, ReadLine, SwarmEvent, Quit, Command, CommandPanic,
                  EndOfInput, UserInput, RelayLost, NewListenAddr, Turn, ui
    <2>. QED  BY <2>1, <2>2, SameUI
  <1>2. CASE Accept
    BY <1>2, SameUI DEF Accept
  <1>3. CASE Handshake
    <2>1. incoming' = <<>> /\ ~ closing' /\ client' # "closing"
      BY <1>3 DEF Handshake, CloseInv, IndInv, TypeOK, Clients
    <2>. QED  BY <2>1 DEF CloseIsLast, CloseNotLost
  <1>4. CASE ReadEnd
    <2>1. UNCHANGED incoming /\ client' = "gone"
      BY <1>4 DEF ReadEnd
    <2>. QED  BY <2>1 DEF CloseInv, CloseIsLast, CloseNotLost
  <1>5. CASE Environment
    <2>1. CASE ClientConnects
      BY <2>1, SameUI DEF ClientConnects
    <2>2. CASE ClientVanishes \/ Arrive \/ \E line \in Line : Type(line)
      BY <2>2, SameUI DEF ClientVanishes, Arrive, Type, ui
    <2>. QED  BY <1>5, <2>1, <2>2, ClientSendsCloses DEF Environment
  <1>6. CASE UNCHANGED vars
    BY <1>6, SameUI DEF vars
  <1>. QED  BY <1>1, <1>2, <1>3, <1>4, <1>5, <1>6, ReadFrameCloses, QueueCloses
            DEF Next, FromClient

\* A client's close, if its reason is no JSON, reaches the end of the session's
\* queue, whatever was sent before it and in whatever order the session's two
\* branches take their turns (web.rs:56-95).
THEOREM ClosesArriveLast == Spec => []CloseNotLost
  <1>1. Init => CloseInv
    BY InitIndInv DEF Init, CloseInv, CloseIsLast, CloseNotLost
  <1>2. CloseInv /\ [Next]_vars => CloseInv'
    BY NextIndInv, StepCloses DEF CloseInv
  <1>3. CloseInv => CloseNotLost
    BY DEF CloseInv
  <1>. QED  BY <1>1, <1>2, <1>3, PTL DEF Spec
=============================================================================
