-------------------------- MODULE ApiSessionProofs --------------------------
(***************************************************************************)
(* What TLAPS proves of ApiSession for any set of threads and any number   *)
(* of calls: all five invariants of the run ApiSession.  Undisturbed says  *)
(* how far an initialise without a rival has come in making the globals    *)
(* its own, Numbered keeps the numbers of calls apart, and Matched is what *)
(* is left of both when no initialise is under way.                        *)
(***************************************************************************)
EXTENDS ApiSession, TLAPS

(* The parts of the inductive invariant *)

\* Behind an access, what the accesses before it have found is still there:
\* only SWARM is ever emptied.
Found ==
  /\ SWARM # 0 => NETWORK_CONFIG.by # 0
  /\ NETWORK_CONFIG.by # 0 => RUNTIME # 0
  /\ \A t \in Thread :
       /\ pc[t] \in {"config", "swarm", "channel", "network", "start runtime", "listen",
                     "list runtime", "dial runtime", "poll swarm"} => RUNTIME # 0
       /\ pc[t] \in {"swarm", "channel", "network", "start config"} => NETWORK_CONFIG.by # 0
       /\ result[t] \notin {"no runtime", "late refusal", "lost config"}

\* A call under way has a number of its own, which nothing bears before its
\* swarm does.
Numbered ==
  \A t \in Thread :
    pc[t] \notin {"idle", "panicked"} =>
      /\ call[t] \in 1..calls
      /\ \A u \in Thread : u # t => call[u] # call[t]
      /\ pc[t] \in Initialising \ {"channel", "network"} =>
           SWARM # call[t] /\ \A l \in listening : l.swarm # call[t]
Bounded ==
  /\ SWARM <= calls
  /\ \A l \in listening : l.swarm <= calls
  /\ \A t \in Thread : call[t] <= calls

\* What an initialise has made its own if no other call wrote a global.
Own(t) ==
  /\ pc[t] \in {"config", "swarm", "channel", "network"} => RUNTIME = call[t]
  /\ pc[t] \in {"swarm", "channel", "network"} => NETWORK_CONFIG.by = call[t]
  /\ pc[t] \in {"channel", "network"} =>
       /\ SWARM = call[t] \/ SWARM = 0
       /\ \A l \in listening : l.swarm = call[t] => l.runtime = call[t]
  /\ pc[t] = "network" => EVENT_CHANNEL = call[t]
Undisturbed == \A t \in Thread \ disturbed : Own(t)

\* "default runtime" has written nothing yet, and leaves nothing if it fails.
Writing == Initialising \ {"default runtime"}
Matched ==
  (\A t \in Thread : pc[t] \notin Writing) /\ ~ spoiled =>
    /\ SWARM # 0 =>
         /\ RUNTIME = SWARM /\ NETWORK = SWARM
         /\ NETWORK_CONFIG.by = SWARM /\ EVENT_CHANNEL = SWARM
    /\ \A l \in listening : l.swarm = SWARM => l.runtime = RUNTIME

\* A default config comes from load_bootnodes.
FromBootFile(c) ==
  c.default => c.relays /\ boot_file_parses /\ (c.boot => host.boot_file # "absent")
DefaultLoaded ==
  /\ \A t \in Thread : FromBootFile(cfg[t])
  /\ FromBootFile(NETWORK_CONFIG.cfg)
  /\ DefaultNeedsBootNodes

IndInv ==
  TypeOK /\ Found /\ Numbered /\ Bounded /\ Undisturbed /\ Matched /\ DefaultLoaded

-----------------------------------------------------------------------------
(* Numbers *)

\* The number of the next call is one.
LEMMA NextNumber ==
  ASSUME NEW n \in Number, n < MaxCalls
  PROVE  n + 1 \in Number
  BY MaxCallsAssumption DEF Number

\* Numbers of calls are natural numbers.
LEMMA NumberedCalls ==
  ASSUME TypeOK
  PROVE  /\ calls \in Number /\ calls \in Nat /\ SWARM \in Nat /\ RUNTIME \in Nat
         /\ \A l \in listening : l.swarm \in Nat /\ l.swarm # 0
         /\ call \in [Thread -> Nat]
  <1>1. Number \subseteq Nat
    BY MaxCallsAssumption DEF Number
  <1>2. calls \in Number /\ SWARM \in Number /\ RUNTIME \in Number /\ call \in [Thread -> Number]
        /\ \A l \in listening : l.swarm \in Number /\ l.swarm # 0
    BY DEF TypeOK
  <1>. QED  BY <1>1, <1>2

LEMMA InitIndInv == Init => IndInv
  <1>. SUFFICES ASSUME Init PROVE IndInv
    OBVIOUS
  <1>1. TypeOK
    <2>1. NoConfig \in Config
      BY DEF NoConfig, Config
    <2>2. spoiled \in BOOLEAN
      BY Zenon DEF Init
    <2>3. 0 \in Number
      BY MaxCallsAssumption DEF Number
    <2>4. "idle" \in Access /\ "none" \in Result
      BY DEF Access, Result
    <2>. QED  BY <2>1, <2>2, <2>3, <2>4 DEF Init, TypeOK, Filled
  <1>2. Found /\ Numbered /\ Bounded /\ Undisturbed /\ Matched
    BY DEF Init, Found, Numbered, Bounded, Undisturbed, Own, Matched, Filled
  <1>3. DefaultLoaded
    BY DEF Init, DefaultLoaded, FromBootFile, DefaultNeedsBootNodes, Filled, NoConfig
  <1>. QED  BY <1>1, <1>2, <1>3 DEF IndInv

-----------------------------------------------------------------------------
(* How a step moves its own thread, and no other *)

Moves(t, label) == \A u \in Thread : pc'[u] = IF u = t THEN label ELSE pc[u]
Keeps(t) == \A u \in Thread : call'[u] = call[u] /\ result'[u] = result[u]
Ends(t, how) ==
  \A u \in Thread : /\ call'[u] = IF u = t THEN 0 ELSE call[u]
                    /\ result'[u] = IF u = t THEN how ELSE result[u]

LEMMA BeginMoves ==
  ASSUME TypeOK, NEW t \in Thread, NEW label, NEW c, Begin(t, label, c)
  PROVE  /\ Moves(t, label) /\ pc[t] = "idle"
         /\ \A u \in Thread : /\ call'[u] = IF u = t THEN calls + 1 ELSE call[u]
                              /\ result'[u] = IF u = t THEN "none" ELSE result[u]
                              /\ cfg'[u] = IF u = t THEN c ELSE cfg[u]
  BY DEF TypeOK, Begin, Moves
LEMMA GotoMoves ==
  ASSUME TypeOK, NEW t \in Thread, NEW label \in Access, Goto(t, label)
  PROVE  /\ Moves(t, label) /\ Keeps(t) /\ calls' = calls
         /\ pc' \in [Thread -> Access] /\ call' \in [Thread -> Number]
         /\ result' \in [Thread -> Result] /\ calls' \in Number
  BY DEF TypeOK, Goto, Moves, Keeps
LEMMA EndMoves ==
  ASSUME TypeOK, NEW t \in Thread, NEW how \in Result, End(t, how)
  PROVE  /\ Moves(t, IF how \in Panic THEN "panicked" ELSE "idle") /\ Ends(t, how)
         /\ calls' = calls
         /\ pc' \in [Thread -> Access] /\ call' \in [Thread -> Number]
         /\ result' \in [Thread -> Result] /\ calls' \in Number
  <1>1. "panicked" \in Access /\ "idle" \in Access
    BY DEF Access
  <1>2. 0 \in Number
    BY MaxCallsAssumption DEF Number
  <1>. QED  BY <1>1, <1>2 DEF TypeOK, End, Moves, Ends

LEMMA NumberedNotNone ==
  ASSUME TypeOK, Numbered
  PROVE  /\ \A u \in Thread : pc[u] \in Initialising => call[u] # 0
         /\ \A u \in Thread : pc[u] = "lone runtime" => call[u] # 0
  <1>1. calls \in Nat
    BY NumberedCalls
  <1>2. \A u \in Thread : pc[u] \in Initialising \/ pc[u] = "lone runtime" =>
                            call[u] \in 1..calls
    <2>1. \A u \in Thread : pc[u] \in Initialising \/ pc[u] = "lone runtime" =>
                              pc[u] \notin {"idle", "panicked"}
      BY DEF Initialising
    <2>. QED  BY <2>1 DEF Numbered
  <1>3. \A n \in 1..calls : n # 0
    BY <1>1
  <1>. QED  BY <1>2, <1>3

\* The numbers stay apart in every step of a call.
LEMMA NumberedStep ==
  ASSUME TypeOK, Numbered, Bounded, NEW t \in Thread,
         pc[t] \notin {"idle", "panicked"}, calls' = calls,
         \A u \in Thread \ {t} : pc'[u] = pc[u] /\ call'[u] = call[u],
         \/ call'[t] = call[t] /\ pc'[t] \notin {"idle", "panicked"}
         \/ call'[t] = 0 /\ pc'[t] \in {"idle", "panicked"},
         pc'[t] \in Initialising \ {"channel", "network"} =>
           pc[t] \in Initialising \ {"channel", "network"},
         SWARM' \in {SWARM, 0} \/ (SWARM' = call[t] /\ pc'[t] = "channel"),
         \A l \in listening' : l \in listening \/ l.swarm = SWARM
  PROVE  Numbered' /\ Bounded'
  <1>1. calls \in Nat /\ SWARM \in Nat /\ \A u \in Thread : call[u] \in Nat
    BY NumberedCalls
  <1>2. Bounded'
    BY <1>1 DEF Bounded, Numbered
  <1>3. ASSUME NEW u \in Thread, pc'[u] \notin {"idle", "panicked"}
        PROVE  /\ call'[u] \in 1..calls'
               /\ \A w \in Thread : w # u => call'[w] # call'[u]
               /\ pc'[u] \in Initialising \ {"channel", "network"} =>
                    SWARM' # call'[u] /\ \A l \in listening' : l.swarm # call'[u]
    <2>1. call'[u] = call[u] /\ call[u] \in 1..calls /\ pc[u] \notin {"idle", "panicked"}
          /\ \A w \in Thread : w # u => call[w] # call[u]
      BY <1>3 DEF Numbered
    <2>2. \A w \in Thread : w # u => call'[w] # call'[u]
      BY <1>1, <2>1
    <2>3. pc'[u] \in Initialising \ {"channel", "network"} =>
                    SWARM' # call'[u] /\ \A l \in listening' : l.swarm # call'[u]
      <3>. SUFFICES ASSUME pc'[u] \in Initialising \ {"channel", "network"}
                    PROVE  SWARM' # call'[u] /\ \A l \in listening' : l.swarm # call'[u]
        OBVIOUS
      <3>1. SWARM # call[u] /\ \A l \in listening : l.swarm # call[u]
        BY <2>1 DEF Numbered
      <3>2. SWARM' = call[t] /\ pc'[t] = "channel" => u # t
        OBVIOUS
      <3>. QED  BY <2>1, <3>1, <3>2, <1>1
    <2>. QED  BY <2>1, <2>2, <2>3
  <1>. QED  BY <1>2, <1>3 DEF Numbered

\* A call that begins takes the next number.
LEMMA NumberedBegin ==
  ASSUME TypeOK, Numbered, Bounded, NEW t \in Thread, calls' = calls + 1,
         SWARM' = SWARM, listening' = listening,
         \A u \in Thread \ {t} : pc'[u] = pc[u] /\ call'[u] = call[u],
         call'[t] = calls + 1
  PROVE  Numbered' /\ Bounded'
  <1>1. calls \in Nat /\ SWARM \in Nat /\ (\A u \in Thread : call[u] \in Nat)
        /\ \A l \in listening : l.swarm \in Nat
    BY NumberedCalls
  <1>2. Bounded'
    BY <1>1 DEF Bounded
  <1>3. ASSUME NEW u \in Thread, pc'[u] \notin {"idle", "panicked"}
        PROVE  /\ call'[u] \in 1..calls'
               /\ \A w \in Thread : w # u => call'[w] # call'[u]
               /\ pc'[u] \in Initialising \ {"channel", "network"} =>
                    SWARM' # call'[u] /\ \A l \in listening' : l.swarm # call'[u]
    <2>1. CASE u = t
      BY <1>1, <2>1 DEF Bounded
    <2>2. CASE u # t
      <3>1. call'[u] = call[u] /\ pc'[u] = pc[u] /\ call[u] \in 1..calls /\ call[u] <= calls
        BY <1>3, <2>2 DEF Numbered, Bounded
      <3>2. \A w \in Thread : w # u => call'[w] # call'[u]
        BY <1>1, <1>3, <2>2, <3>1 DEF Numbered
      <3>. QED  BY <1>1, <1>3, <2>2, <3>1, <3>2 DEF Numbered
    <2>. QED  BY <2>1, <2>2
  <1>. QED  BY <1>2, <1>3 DEF Numbered

\* What the others own stays theirs, or they are disturbed.
LEMMA UndisturbedStep ==
  ASSUME Undisturbed, NEW t \in Thread,
         disturbed \ {t} \subseteq disturbed',
         \A u \in Thread \ {t} : pc'[u] = pc[u] /\ call'[u] = call[u],
         \/ /\ RUNTIME' = RUNTIME /\ NETWORK_CONFIG' = NETWORK_CONFIG
            /\ EVENT_CHANNEL' = EVENT_CHANNEL /\ (SWARM' = SWARM \/ SWARM' = 0)
         \/ \A u \in Thread \ {t} : pc[u] \in Initialising => u \in disturbed',
         \A l \in listening' :
           l \in listening \/ (l.swarm = SWARM /\ l.runtime = RUNTIME /\ SWARM # 0),
         \A u \in Thread \ {t} : pc[u] \in Initialising => call[u] # 0,
         t \in disturbed' \/ Own(t)'
  PROVE  Undisturbed'
  <1>1. SUFFICES ASSUME NEW u \in Thread \ disturbed', u # t PROVE Own(u)'
    BY DEF Undisturbed
  <1>2. Own(u) /\ pc'[u] = pc[u] /\ call'[u] = call[u]
    BY <1>1 DEF Undisturbed
  <1>3. CASE pc[u] \notin Initialising
    BY <1>2, <1>3 DEF Own, Initialising
  <1>4. CASE pc[u] \in Initialising
    BY <1>1, <1>2, <1>4 DEF Own
  <1>. QED  BY <1>3, <1>4

-----------------------------------------------------------------------------
(* The inductive invariant: calls that begin, and steps that only read *)

\* A call begins.
LEMMA BeginStep ==
  ASSUME IndInv, NEW t \in Thread, NEW c \in Config, FromBootFile(c),
         NEW label \in {"lone runtime", "default runtime", "key", "runtime", "start test",
                        "consume test", "list swarm", "list config", "dial swarm",
                        "poll runtime"},
         Begin(t, label, c)
  PROVE  IndInv'
  <1>. USE DEF IndInv
  <1>1. TypeOK'
    <2>1. label \in Access /\ "none" \in Result
      BY DEF Access, Initialising, Result
    <2>2. calls + 1 \in Number
      BY NumberedCalls, NextNumber DEF Begin
    <2>. QED  BY <2>1, <2>2 DEF Begin, TypeOK, globals
  <1>2. Found'
    BY DEF Begin, Found, TypeOK, globals
  <1>3. /\ UNCHANGED <<RUNTIME, NETWORK, NETWORK_CONFIG, SWARM, EVENT_CHANNEL, listening, spoiled>>
        /\ disturbed' = disturbed \ {t} /\ calls' = calls + 1
        /\ call'[t] = calls + 1 /\ pc'[t] = label
        /\ \A u \in Thread \ {t} : pc'[u] = pc[u] /\ call'[u] = call[u]
    <2>1. \A u \in Thread : pc'[u] = IF u = t THEN label ELSE pc[u]
      BY BeginMoves DEF Moves
    <2>2. \A u \in Thread : call'[u] = IF u = t THEN calls + 1 ELSE call[u]
      BY BeginMoves
    <2>. QED  BY <2>1, <2>2 DEF Begin, globals
  <1>4. Numbered' /\ Bounded'
    BY <1>3, NumberedBegin
  <1>6. Undisturbed'
    <2>1. Own(t)'
      BY <1>3 DEF Own
    <2>2. \A u \in Thread \ {t} : pc[u] \in Initialising => call[u] # 0
      BY NumberedNotNone
    <2>. QED  BY <1>3, <2>1, <2>2, UndisturbedStep
  <1>7. Matched'
    <2>1. pc[t] \notin Writing
      BY DEF Begin, Writing, Initialising
    <2>. QED  BY <1>3, <2>1 DEF Matched
  <1>5. DefaultLoaded'
    BY DEF Begin, DefaultLoaded, FromBootFile, DefaultNeedsBootNodes, boot_file_parses,
           TypeOK, globals
  <1>. QED  BY <1>1, <1>2, <1>4, <1>5, <1>6, <1>7

LEMMA ReadSteps ==
  ASSUME IndInv, NEW t \in Thread,
         \/ StartTest(t) \/ StartBorrow(t) \/ List(t) \/ Dial(t) \/ Poll(t)
         \/ Borrow(t, "consume test", SWARM # 0, "take", "no swarm")
         \/ Borrow(t, "take", SWARM # 0, "clear", "lost swarm")
  PROVE  IndInv'
  <1>. USE DEF IndInv
  <1>1. /\ UNCHANGED <<host, globals, cfg, listening, history>>
        /\ pc[t] \in Access \ (Initialising \cup {"idle", "panicked"})
        /\ \/ \E label \in Access \ (Initialising \cup {"idle", "panicked"}) :
                /\ Goto(t, label)
                /\ label \in {"start runtime", "listen", "list runtime", "dial runtime",
                              "poll swarm"} => RUNTIME # 0
                /\ label = "start config" => NETWORK_CONFIG.by # 0
           \/ \E how \in Result \ {"no runtime", "late refusal", "lost config"} : End(t, how)
    <2>. USE DEF Found, Reads, Borrow, Test, Access, Initialising, Result, Panic
    <2>1. CASE StartTest(t) \/ StartBorrow(t)
      BY <2>1 DEF StartTest, StartBorrow
    <2>2. CASE List(t) \/ Dial(t) \/ Poll(t)
      BY <2>2 DEF List, Dial, Poll
    <2>3. CASE Borrow(t, "consume test", SWARM # 0, "take", "no swarm")
               \/ Borrow(t, "take", SWARM # 0, "clear", "lost swarm")
      BY <2>3
    <2>. QED  BY <2>1, <2>2, <2>3
  <1>2. CASE \E label \in Access \ (Initialising \cup {"idle", "panicked"}) :
               /\ Goto(t, label)
               /\ label \in {"start runtime", "listen", "list runtime", "dial runtime",
                             "poll swarm"} => RUNTIME # 0
               /\ label = "start config" => NETWORK_CONFIG.by # 0
    <2>1. PICK label \in Access \ (Initialising \cup {"idle", "panicked"}) :
               /\ Goto(t, label)
               /\ label \in {"start runtime", "listen", "list runtime", "dial runtime",
                             "poll swarm"} => RUNTIME # 0
               /\ label = "start config" => NETWORK_CONFIG.by # 0
      BY <1>2
    <2>2. Moves(t, label) /\ Keeps(t)
      BY <2>1, GotoMoves
    <2>3. TypeOK'
      BY <1>1, <2>1, GotoMoves DEF TypeOK, globals, history
    <2>4. Numbered' /\ Bounded'
      BY <1>1, <2>1, <2>2, GotoMoves, NumberedStep DEF Moves, Keeps, globals
    <2>5. Found'
      BY <1>1, <2>1, <2>2 DEF Moves, Keeps, globals, history, Found, Initialising
    <2>7. Undisturbed'
      <3>1. Own(t)'
        BY <1>1, <2>1, <2>2 DEF Moves, Own, Initialising
      <3>. QED
        BY <1>1, <2>2, <3>1, NumberedNotNone, UndisturbedStep
           DEF Moves, Keeps, globals, history
    <2>6. Matched' /\ DefaultLoaded'
      BY <1>1, <2>1, <2>2
         DEF Moves, globals, history, Matched, Writing, Initialising, DefaultLoaded,
             FromBootFile, DefaultNeedsBootNodes, boot_file_parses
    <2>. QED  BY <2>3, <2>4, <2>5, <2>6, <2>7
  <1>3. CASE \E how \in Result \ {"no runtime", "late refusal", "lost config"} : End(t, how)
    <2>1. PICK how \in Result \ {"no runtime", "late refusal", "lost config"} : End(t, how)
      BY <1>3
    <2>2. Moves(t, IF how \in Panic THEN "panicked" ELSE "idle") /\ Ends(t, how)
      BY <2>1, EndMoves
    <2>3. TypeOK'
      BY <1>1, <2>1, EndMoves DEF TypeOK, globals, history
    <2>4. Numbered' /\ Bounded'
      BY <1>1, <2>1, <2>2, EndMoves, NumberedStep DEF Moves, Ends, globals, Initialising
    <2>5. Found'
      BY <1>1, <2>1, <2>2 DEF Moves, Ends, globals, history, Found, Initialising
    <2>7. Undisturbed'
      <3>1. Own(t)'
        BY <1>1, <2>1, <2>2 DEF Moves, Own, Initialising
      <3>. QED
        BY <1>1, <2>2, <3>1, NumberedNotNone, UndisturbedStep
           DEF Moves, Ends, globals, history
    <2>6. Matched' /\ DefaultLoaded'
      BY <1>1, <2>1, <2>2
         DEF Moves, globals, history, Matched, Writing, Initialising, DefaultLoaded,
             FromBootFile, DefaultNeedsBootNodes, boot_file_parses
    <2>. QED  BY <2>3, <2>4, <2>5, <2>6, <2>7
  <1>. QED  BY <1>1, <1>2, <1>3

-----------------------------------------------------------------------------
(* The inductive invariant: start_listening, and the swarm consumed *)

LEMMA ListenStep ==
  ASSUME IndInv, NEW t \in Thread, start_listening(t)
  PROVE  IndInv'
  <1>. USE DEF IndInv
  <1>. DEFINE l0 == [swarm |-> SWARM, runtime |-> RUNTIME, cfg |-> NETWORK_CONFIG.cfg]
  <1>1. /\ UNCHANGED <<host, cfg, RUNTIME, NETWORK, NETWORK_CONFIG, SWARM, EVENT_CHANNEL,
                       disturbed, spoiled>>
        /\ pc[t] = "listen"
        /\ \/ listening' = listening
           \/ listening' = listening \cup {l0} /\ SWARM # 0
              /\ (NETWORK_CONFIG.cfg.relays => NETWORK_CONFIG.cfg.boot)
    BY DEF start_listening, globals, history
  <1>2. PICK how \in {"no relay", "ok", "one listener", "refused"} : End(t, how)
    BY DEF start_listening
  <1>3. how \in Result
    BY DEF Result, Panic
  <1>4. /\ Moves(t, IF how \in Panic THEN "panicked" ELSE "idle") /\ Ends(t, how)
        /\ calls' = calls
        /\ pc' \in [Thread -> Access] /\ call' \in [Thread -> Number]
        /\ result' \in [Thread -> Result] /\ calls' \in Number
    BY <1>2, <1>3, EndMoves
  <1>5. /\ pc'[t] \in {"idle", "panicked"} /\ call'[t] = 0
        /\ \A u \in Thread \ {t} : pc'[u] = pc[u] /\ call'[u] = call[u]
    BY <1>4 DEF Moves, Ends
  <1>6. \A l \in listening' :
          l \in listening \/ (l.swarm = SWARM /\ l.runtime = RUNTIME /\ SWARM # 0
                              /\ l.cfg = NETWORK_CONFIG.cfg
                              /\ (NETWORK_CONFIG.cfg.relays => NETWORK_CONFIG.cfg.boot))
    <2>1. l0.swarm = SWARM /\ l0.runtime = RUNTIME /\ l0.cfg = NETWORK_CONFIG.cfg
      OBVIOUS
    <2>. HIDE DEF l0
    <2>. QED  BY <1>1, <2>1
  <1>7. TypeOK'
    <2>1. SWARM # 0 => l0 \in [swarm : Number \ {0}, runtime : Number, cfg : Config]
      BY DEF TypeOK
    <2>2. listening' \subseteq [swarm : Number \ {0}, runtime : Number, cfg : Config]
      BY <1>1, <2>1 DEF TypeOK
    <2>. QED  BY <1>1, <1>4, <2>2 DEF TypeOK
  <1>8. Numbered' /\ Bounded'
    BY <1>1, <1>4, <1>5, <1>6, NumberedStep DEF Initialising
  <1>9. Undisturbed'
    <2>1. Own(t)'
      BY <1>5 DEF Own
    <2>. QED  BY <1>1, <1>5, <1>6, <2>1, NumberedNotNone, UndisturbedStep
  <1>10. Found'
    <2>1. \A u \in Thread : result'[u] \notin {"no runtime", "late refusal", "lost config"}
      BY <1>2, <1>4 DEF Ends, Found
    <2>. QED  BY <1>1, <1>5, <2>1 DEF Found
  <1>11. Matched'
    BY <1>1, <1>5, <1>6 DEF Matched, Writing, Initialising
  <1>12. DefaultLoaded'
    BY <1>1, <1>6 DEF DefaultLoaded, FromBootFile, DefaultNeedsBootNodes, boot_file_parses
  <1>. QED  BY <1>7, <1>8, <1>9, <1>10, <1>11, <1>12

LEMMA ClearStep ==
  ASSUME IndInv, NEW t \in Thread, pc[t] = "clear", SWARM' = 0, End(t, "ok"),
         UNCHANGED <<host, RUNTIME, NETWORK, NETWORK_CONFIG, EVENT_CHANNEL, cfg, listening,
                     disturbed, spoiled>>
  PROVE  IndInv'
  <1>. USE DEF IndInv
  <1>1. "ok" \in Result /\ "ok" \notin Panic
    BY DEF Result, Panic
  <1>2. /\ Moves(t, "idle") /\ Ends(t, "ok")
        /\ calls' = calls
        /\ pc' \in [Thread -> Access] /\ call' \in [Thread -> Number]
        /\ result' \in [Thread -> Result] /\ calls' \in Number
    BY <1>1, EndMoves
  <1>3. /\ pc'[t] = "idle" /\ call'[t] = 0
        /\ \A u \in Thread \ {t} : pc'[u] = pc[u] /\ call'[u] = call[u]
    BY <1>2 DEF Moves, Ends
  <1>4. TypeOK'
    <2>1. 0 \in Number
      BY MaxCallsAssumption DEF Number
    <2>. QED  BY <1>2, <2>1 DEF TypeOK
  <1>5. Numbered' /\ Bounded'
    BY <1>2, <1>3, NumberedStep DEF Initialising
  <1>6. Undisturbed'
    <2>1. Own(t)'
      BY <1>3 DEF Own
    <2>. QED  BY <1>3, <2>1, NumberedNotNone, UndisturbedStep
  <1>7. Found'
    <2>1. \A u \in Thread : result'[u] \notin {"no runtime", "late refusal", "lost config"}
      BY <1>2 DEF Ends, Found
    <2>. QED  BY <1>3, <2>1 DEF Found
  <1>8. Matched'
    <2>1. \A l \in listening : l.swarm # 0
      BY NumberedCalls
    <2>. QED  BY <1>3, <2>1 DEF Matched, Writing, Initialising
  <1>9. DefaultLoaded'
    BY DEF DefaultLoaded, FromBootFile, DefaultNeedsBootNodes, boot_file_parses
  <1>. QED  BY <1>4, <1>5, <1>6, <1>7, <1>8, <1>9

-----------------------------------------------------------------------------
(* The inductive invariant: an initialise goes on, ends or fails *)

\* A step that goes on writes one global at most, and disturbs the others then.
LEMMA GoOnStep ==
  ASSUME IndInv, NEW t \in Thread, pc[t] \in Initialising,
         NEW label \in Writing, Goto(t, label),
         label \in {"channel", "network"} \/ pc[t] \notin {"channel", "network"},
         UNCHANGED <<host, listening, spoiled>>,
         RUNTIME' \in Number, NETWORK' \in Number, EVENT_CHANNEL' \in Number,
         NETWORK_CONFIG' \in [by : Number, cfg : Config], cfg' \in [Thread -> Config],
         SWARM' = SWARM \/ (SWARM' = call[t] /\ label = "channel"),
         \/ UNCHANGED <<RUNTIME, NETWORK_CONFIG, SWARM, EVENT_CHANNEL, disturbed>>
         \/ Disturb(t),
         t \in disturbed' \/ Own(t)',
         RUNTIME # 0 => RUNTIME' # 0,
         NETWORK_CONFIG.by # 0 => NETWORK_CONFIG'.by # 0,
         SWARM' # 0 => NETWORK_CONFIG'.by # 0,
         NETWORK_CONFIG'.by # 0 => RUNTIME' # 0,
         label \in {"config", "swarm", "channel", "network"} => RUNTIME' # 0,
         label \in {"swarm", "channel", "network"} => NETWORK_CONFIG'.by # 0,
         \A u \in Thread : FromBootFile(cfg'[u]), FromBootFile(NETWORK_CONFIG'.cfg)
  PROVE  IndInv'
  <1>. USE DEF IndInv
  <1>1. label \in Access /\ label \notin {"idle", "panicked"} /\ label \in Initialising
    BY DEF Writing, Access, Initialising
  <1>2. /\ Moves(t, label) /\ Keeps(t) /\ calls' = calls
        /\ pc' \in [Thread -> Access] /\ call' \in [Thread -> Number]
        /\ result' \in [Thread -> Result] /\ calls' \in Number
    BY <1>1, GotoMoves
  <1>3. /\ pc'[t] = label /\ call'[t] = call[t]
        /\ \A u \in Thread \ {t} : pc'[u] = pc[u] /\ call'[u] = call[u]
        /\ \A u \in Thread : result'[u] = result[u]
    BY <1>2 DEF Moves, Keeps
  <1>4. /\ disturbed \subseteq disturbed' /\ disturbed' \subseteq Thread
        /\ \/ UNCHANGED <<RUNTIME, NETWORK_CONFIG, SWARM, EVENT_CHANNEL, disturbed>>
           \/ \A u \in Thread \ {t} : pc[u] \in Initialising => u \in disturbed'
    BY DEF Disturb, TypeOK
  <1>5. TypeOK'
    <2>1. SWARM' \in Number
      BY DEF TypeOK
    <2>. QED  BY <1>2, <1>4, <2>1 DEF TypeOK
  <1>6. Numbered' /\ Bounded'
    <2>1. pc[t] \notin {"idle", "panicked"}
      BY DEF Initialising
    <2>2. SWARM' \in {SWARM, 0} \/ (SWARM' = call[t] /\ pc'[t] = "channel")
      BY <1>3
    <2>3. pc'[t] \in Initialising \ {"channel", "network"} =>
             pc[t] \in Initialising \ {"channel", "network"}
      BY <1>3
    <2>. QED  BY <1>1, <1>2, <1>3, <2>1, <2>2, <2>3, NumberedStep
  <1>7. Undisturbed'
    BY <1>3, <1>4, NumberedNotNone, UndisturbedStep
  <1>8. Found'
    BY <1>1, <1>3 DEF Found, Initialising
  <1>9. Matched'
    BY <1>3 DEF Matched
  <1>10. DefaultLoaded'
    BY DEF DefaultLoaded, FromBootFile, DefaultNeedsBootNodes, boot_file_parses
  <1>. QED  BY <1>5, <1>6, <1>7, <1>8, <1>9, <1>10

\* A step that ends a call, well or not.
LEMMA EndStep ==
  ASSUME IndInv, NEW t \in Thread, pc[t] \in Initialising \cup {"lone runtime"},
         NEW how \in Result \ {"no runtime", "late refusal", "lost config"}, End(t, how),
         UNCHANGED <<host, cfg, listening, SWARM, NETWORK_CONFIG, EVENT_CHANNEL>>,
         RUNTIME' \in Number, NETWORK' \in Number, spoiled' \in BOOLEAN,
         UNCHANGED <<RUNTIME, disturbed>> \/ Disturb(t),
         RUNTIME # 0 => RUNTIME' # 0,
         Matched'
  PROVE  IndInv'
  <1>. USE DEF IndInv
  <1>1. /\ Moves(t, IF how \in Panic THEN "panicked" ELSE "idle") /\ Ends(t, how)
        /\ calls' = calls
        /\ pc' \in [Thread -> Access] /\ call' \in [Thread -> Number]
        /\ result' \in [Thread -> Result] /\ calls' \in Number
    BY EndMoves
  <1>2. /\ pc'[t] \in {"idle", "panicked"} /\ call'[t] = 0
        /\ \A u \in Thread \ {t} : pc'[u] = pc[u] /\ call'[u] = call[u]
        /\ \A u \in Thread : result'[u] \notin {"no runtime", "late refusal", "lost config"}
    BY <1>1 DEF Moves, Ends, Found
  <1>3. /\ disturbed \subseteq disturbed' /\ disturbed' \subseteq Thread
        /\ \/ UNCHANGED <<RUNTIME, disturbed>>
           \/ \A u \in Thread \ {t} : pc[u] \in Initialising => u \in disturbed'
    BY DEF Disturb, TypeOK
  <1>4. TypeOK'
    BY <1>1, <1>3 DEF TypeOK
  <1>5. Numbered' /\ Bounded'
    <2>1. pc[t] \notin {"idle", "panicked"} /\ pc'[t] \notin Initialising
      BY <1>2 DEF Initialising
    <2>. QED  BY <1>1, <1>2, <2>1, NumberedStep
  <1>6. Undisturbed'
    <2>1. Own(t)'
      BY <1>2 DEF Own
    <2>. QED  BY <1>2, <1>3, <2>1, NumberedNotNone, UndisturbedStep
  <1>7. Found'
    BY <1>2 DEF Found
  <1>8. DefaultLoaded'
    BY DEF DefaultLoaded, FromBootFile, DefaultNeedsBootNodes, boot_file_parses
  <1>. QED  BY <1>4, <1>5, <1>6, <1>7, <1>8

\* The accesses of an initialise one by one.
LEMMA InitialiseSteps ==
  ASSUME IndInv, NEW t \in Thread, Initialise(t)
  PROVE  IndInv'
  <1>. USE DEF IndInv, globals
  <1>1. /\ RUNTIME \in Number /\ NETWORK \in Number /\ SWARM \in Number
        /\ EVENT_CHANNEL \in Number /\ call[t] \in Number
        /\ NETWORK_CONFIG \in [by : Number, cfg : Config] /\ NETWORK_CONFIG.by \in Number
        /\ cfg \in [Thread -> Config] /\ spoiled \in BOOLEAN
    BY DEF TypeOK
  <1>2. pc[t] \in Initialising => call[t] # 0
    BY NumberedNotNone
  <1>3. FromBootFile(NETWORK_CONFIG.cfg) /\ \A u \in Thread : FromBootFile(cfg[u])
    BY DEF DefaultLoaded
  <1>4. /\ "ok" \in Result \ {"no runtime", "late refusal", "lost config"}
        /\ "refused" \in Result \ {"no runtime", "late refusal", "lost config"}
        /\ "boot file" \in Result \ {"no runtime", "late refusal", "lost config"}
    BY DEF Result, Panic
  <1>5. \A how : End(t, how) => pc'[t] \in {"idle", "panicked"}
                                /\ \A u \in Thread \ {t} : pc'[u] = pc[u]
    BY DEF End, TypeOK
  <1>6. \A label \in Writing : Goto(t, label) => pc'[t] = label /\ call'[t] = call[t]
    BY DEF Goto, TypeOK
  <1>7. pc[t] = "lone runtime" => call[t] # 0
    BY NumberedNotNone
  <1>8. CASE LoneRuntime(t)
    <2>1. CASE SetRuntime(t) /\ End(t, "ok") /\ spoiled' = TRUE
      <3>1. Matched'
        BY <2>1 DEF Matched
      <3>2. spoiled' \in BOOLEAN
        BY <2>1, Zenon
      <3>. QED  BY <1>1, <1>4, <1>7, <1>8, <2>1, <3>1, <3>2, EndStep DEF LoneRuntime, SetRuntime
    <2>2. CASE RuntimeFails(t) /\ UNCHANGED spoiled
      <3>1. Matched'
        BY <1>5, <1>8, <2>2 DEF LoneRuntime, RuntimeFails, Matched, Writing, Initialising
      <3>. QED  BY <1>1, <1>4, <1>8, <2>2, <3>1, EndStep DEF LoneRuntime, RuntimeFails
    <2>. QED  BY <1>8, <2>1, <2>2 DEF LoneRuntime
  <1>9. CASE DefaultRuntime(t)
    <2>1. pc[t] = "default runtime" /\ pc[t] \in Initialising /\ spoiled' = spoiled
      BY <1>9 DEF DefaultRuntime, Initialising
    <2>2. CASE SetRuntime(t) /\ Goto(t, "load")
      <3>1. "load" \in Writing
        BY DEF Writing, Initialising
      <3>2. Own(t)'
        BY <1>6, <2>2, <3>1 DEF Own
      <3>. QED  BY <1>1, <1>2, <1>3, <2>1, <2>2, <3>1, <3>2, GoOnStep DEF SetRuntime, Found
    <2>3. CASE RuntimeFails(t)
      <3>1. Matched'
        BY <1>5, <2>1, <2>3 DEF RuntimeFails, Matched, Writing, Initialising
      <3>. QED  BY <1>1, <1>4, <2>1, <2>3, <3>1, EndStep DEF RuntimeFails
    <2>. QED  BY <1>9, <2>2, <2>3 DEF DefaultRuntime
  <1>10. CASE load_bootnodes(t)
    <2>1. pc[t] = "load" /\ pc[t] \in Initialising
          /\ UNCHANGED <<host, RUNTIME, NETWORK, NETWORK_CONFIG, SWARM, EVENT_CHANNEL, listening,
                         disturbed>>
      BY <1>10 DEF load_bootnodes, Initialising
    <2>2. CASE boot_file_parses /\ Goto(t, "key") /\ UNCHANGED spoiled
               /\ cfg' = [cfg EXCEPT ![t] = Default(host.boot_file # "absent")]
      <3>1. "key" \in Writing
        BY DEF Writing, Initialising
      <3>2. Own(t)'
        BY <1>6, <2>2, <3>1 DEF Own
      <3>3. \A b \in BOOLEAN : Default(b) \in Config
        BY DEF Default, Config
      <3>4. cfg' \in [Thread -> Config]
        BY <1>1, <2>2, <3>3
      <3>5. FromBootFile(Default(host.boot_file # "absent"))
        BY <2>2 DEF FromBootFile, Default
      <3>6. \A u \in Thread : FromBootFile(cfg'[u])
        BY <1>1, <1>3, <2>2, <3>5
      <3>. QED  BY <1>1, <1>2, <1>3, <2>1, <2>2, <3>1, <3>2, <3>4, <3>6, GoOnStep DEF Found
    <2>3. CASE End(t, "boot file") /\ spoiled' = TRUE /\ UNCHANGED cfg
      <3>1. Matched'
        BY <2>3 DEF Matched
      <3>2. spoiled' \in BOOLEAN
        BY <2>3, Zenon
      <3>. QED  BY <1>1, <1>4, <2>1, <2>3, <3>1, <3>2, EndStep
    <2>. QED  BY <1>10, <2>2, <2>3 DEF load_bootnodes
  <1>11. CASE SetKey(t)
    <2>1. "runtime" \in Writing /\ pc[t] \in Initialising
      BY <1>11 DEF Writing, Initialising, SetKey
    <2>2. Own(t)'
      BY <1>6, <1>11, <2>1 DEF Own, SetKey
    <2>. QED  BY <1>1, <1>2, <1>3, <1>11, <2>1, <2>2, GoOnStep DEF SetKey, Found
  <1>12. CASE init_runtime(t)
    <2>1. pc[t] = "runtime" /\ pc[t] \in Initialising
      BY <1>12 DEF init_runtime, Initialising
    <2>2. CASE SetRuntime(t) /\ Goto(t, "config") /\ UNCHANGED spoiled
      <3>1. "config" \in Writing
        BY DEF Writing, Initialising
      <3>2. Own(t)'
        BY <1>6, <2>2, <3>1 DEF Own, SetRuntime
      <3>. QED  BY <1>1, <1>2, <1>3, <2>1, <2>2, <3>1, <3>2, GoOnStep DEF SetRuntime, Found
    <2>3. CASE RuntimeFails(t) /\ spoiled' = TRUE
      <3>1. Matched'
        BY <2>3 DEF Matched
      <3>2. spoiled' \in BOOLEAN
        BY <2>3, Zenon
      <3>. QED  BY <1>1, <1>4, <2>1, <2>3, <3>1, <3>2, EndStep DEF RuntimeFails
    <2>. QED  BY <1>12, <2>2, <2>3 DEF init_runtime
  <1>13. CASE SetConfig(t)
    <2>1. "swarm" \in Writing /\ pc[t] \in Initialising /\ pc[t] = "config"
      BY <1>13 DEF Writing, Initialising, SetConfig
    <2>2. NETWORK_CONFIG'.by = call[t] /\ NETWORK_CONFIG'.cfg = cfg[t]
          /\ NETWORK_CONFIG' \in [by : Number, cfg : Config]
      BY <1>1, <1>13 DEF SetConfig, Filled
    <2>3. t \in disturbed' \/ Own(t)'
      BY <1>6, <1>13, <2>1, <2>2 DEF SetConfig, Undisturbed, Own, Disturb
    <2>. QED
      BY <1>1, <1>2, <1>3, <1>13, <2>1, <2>2, <2>3, GoOnStep DEF SetConfig, Found
  <1>14. CASE SetSwarm(t)
    <2>1. "channel" \in Writing /\ pc[t] \in Initialising /\ pc[t] = "swarm"
      BY <1>14 DEF Writing, Initialising, SetSwarm
    <2>2. \A l \in listening : l.swarm # call[t]
      BY <2>1 DEF Numbered
    <2>3. t \in disturbed' \/ Own(t)'
      BY <1>6, <1>14, <2>1, <2>2 DEF SetSwarm, Undisturbed, Own, Disturb
    <2>. QED
      BY <1>1, <1>2, <1>3, <1>14, <2>1, <2>3, GoOnStep DEF SetSwarm, Found
  <1>15. CASE SetChannel(t)
    <2>1. "network" \in Writing /\ pc[t] \in Initialising /\ pc[t] = "channel"
      BY <1>15 DEF Writing, Initialising, SetChannel
    <2>2. t \in disturbed' \/ Own(t)'
      BY <1>6, <1>15, <2>1 DEF SetChannel, Undisturbed, Own, Disturb
    <2>. QED
      BY <1>1, <1>2, <1>3, <1>15, <2>1, <2>2, GoOnStep DEF SetChannel, Found
  <1>16. CASE SetNetwork(t)
    <2>1. pc[t] = "network" /\ pc[t] \in Initialising
      BY <1>16 DEF Initialising, SetNetwork
    <2>2. spoiled' \in BOOLEAN
      BY <1>16 DEF SetNetwork
    <2>3. Matched'
      <3>1. CASE t \in disturbed
        BY <1>16, <3>1 DEF SetNetwork, Matched
      <3>2. CASE t \notin disturbed
        <4>1. Own(t)
          BY <3>2 DEF Undisturbed
        <4>2. /\ RUNTIME' = call[t] /\ NETWORK' = call[t]
              /\ NETWORK_CONFIG'.by = call[t] /\ EVENT_CHANNEL' = call[t]
              /\ SWARM' = call[t] \/ SWARM' = 0
              /\ \A l \in listening' : l.swarm = call[t] => l.runtime = call[t]
          BY <1>16, <2>1, <4>1 DEF SetNetwork, Own
        <4>3. \A l \in listening' : l.swarm # 0
          BY <1>16, NumberedCalls DEF SetNetwork
        <4>. QED  BY <4>2, <4>3 DEF Matched
      <3>. QED  BY <3>1, <3>2
    <2>. QED  BY <1>1, <1>4, <1>16, <2>1, <2>2, <2>3, EndStep DEF SetNetwork
  <1>. QED
    BY <1>8, <1>9, <1>10, <1>11, <1>12, <1>13, <1>14, <1>15, <1>16 DEF Initialise

-----------------------------------------------------------------------------
(* Theorems *)

\* The inductive invariant holds in every state of every behaviour.
THEOREM InductiveInvariant == Spec => []IndInv
  <1>1. IndInv /\ [Next]_vars => IndInv'
    <2>. SUFFICES ASSUME IndInv, [Next]_vars PROVE IndInv'
      OBVIOUS
    <2>1. CASE UNCHANGED vars
      <3>. USE <2>1 DEF vars, globals, history
      <3>1. TypeOK' /\ Found'
        BY DEF IndInv, TypeOK, Found
      <3>2. Numbered' /\ Bounded'
        BY DEF IndInv, Numbered, Bounded
      <3>3. Undisturbed' /\ Matched'
        BY DEF IndInv, Undisturbed, Own, Matched
      <3>4. DefaultLoaded'
        BY DEF IndInv, DefaultLoaded, FromBootFile, DefaultNeedsBootNodes, boot_file_parses
      <3>. QED  BY <3>1, <3>2, <3>3, <3>4 DEF IndInv
    <2>2. CASE Next
      <3>1. PICK t \in Thread : Call(t) \/ Step(t)
        BY <2>2 DEF Next
      <3>2. CASE Call(t)
        <4>1. NoConfig \in Config /\ FromBootFile(NoConfig)
              /\ \A c \in Given : c \in Config /\ FromBootFile(c)
          BY DEF NoConfig, Config, Given, FromBootFile
        <4>. QED
          BY <3>2, <4>1, BeginStep
             DEF Call, init_runtime_call, initialise_default, initialise_with_private_key,
                 initialise_with_network, start_network, consume_swarm, list_nodes,
                 list_bootnodes, dial, poll_next
      <3>3. CASE Step(t)
        <4>1. CASE Consume(t)
          BY <4>1, ReadSteps, ClearStep DEF Consume, history
        <4>. QED
          BY <3>3, <4>1, ReadSteps, ListenStep, InitialiseSteps DEF Step
      <3>. QED  BY <3>1, <3>2, <3>3
    <2>. QED  BY <2>1, <2>2
  <1>. QED  BY InitIndInv, <1>1, PTL DEF Spec

\* Every reachable state has the shape TypeOK gives it.
THEOREM TypeCorrect == Spec => []TypeOK
  BY InductiveInvariant, PTL DEF IndInv

\* However the threads interleave, a call that finds a swarm or a config finds
\* what it needs behind it.
THEOREM RuntimeIsThere == Spec => []SwarmBringsRuntime
  <1>1. IndInv => SwarmBringsRuntime
    BY DEF IndInv, Found, SwarmBringsRuntime
  <1>. QED  BY InductiveInvariant, <1>1, PTL

\* An initialise without a rival makes all five globals its own, for any
\* number of threads and calls.
THEOREM GlobalsMatch == Spec => []OneInitialise
  <1>1. IndInv => OneInitialise
    BY DEF IndInv, Matched, Writing, OneInitialise, Quiet
  <1>. QED  BY InductiveInvariant, <1>1, PTL

\* The swarm in the globals listens on the runtime in the globals.
THEOREM ListenersStayLive == Spec => []ListenersLive
  <1>1. IndInv => ListenersLive
    BY DEF IndInv, Matched, Writing, ListenersLive, Quiet
  <1>. QED  BY InductiveInvariant, <1>1, PTL

\* A default config listens only with a boot node from a readable file.
THEOREM DefaultIsBooted == Spec => []DefaultNeedsBootNodes
  <1>1. IndInv => DefaultNeedsBootNodes
    BY DEF IndInv, DefaultLoaded
  <1>. QED  BY InductiveInvariant, <1>1, PTL
=============================================================================
