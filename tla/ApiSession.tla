----------------------------- MODULE ApiSession -----------------------------
(***************************************************************************)
(* The library API (src/src/api/common.rs): five static mut globals that   *)
(* the calls of an embedding program fill, test, borrow and take.  The     *)
(* bindings of api.rsh can be called from any thread and nothing locks the *)
(* globals, so a call is a sequence of accesses, one global each, between  *)
(* which the calls of other threads run.  as_mut() borrows a global's      *)
(* place: whoever holds it acts on what is there when it acts.             *)
(*                                                                         *)
(* A global holds the number of the call that filled it, 0 for None.       *)
(***************************************************************************)
EXTENDS Integers

CONSTANTS
  Thread,       \* the threads that call
  MaxCalls      \* BOUND: calls in a behaviour

ASSUME MaxCallsAssumption == MaxCalls \in Nat

VARIABLES
  host,         \* what the process finds: boot_nodes.txt, IPv6
  RUNTIME, NETWORK, NETWORK_CONFIG, SWARM, EVENT_CHANNEL,
  pc,           \* pc[t]: the access that t's call makes next
  call,         \* call[t]: the number of t's call, 0 between calls
  cfg,          \* cfg[t]: the NetworkConfig t's call was given or has made
  result,       \* result[t]: how t's last call ended
  listening,    \* the listeners opened: of which swarm, on which runtime
  calls,        \* how many calls were made
  disturbed,    \* threads in whose initialise another call wrote a global
  spoiled       \* the globals may stem from several calls

globals == <<RUNTIME, NETWORK, NETWORK_CONFIG, SWARM, EVENT_CHANNEL>>
history == <<disturbed, spoiled>>
vars == <<host, globals, pc, call, cfg, result, listening, calls, history>>

\* What the calls read of a NetworkConfig: whether initialise_default made it,
\* whether start_listening goes through a relay (a client without
\* relay_dial_mode), whether it has a boot node (never, made from a NetConfig).
Config == [default : BOOLEAN, relays : BOOLEAN, boot : BOOLEAN]
NoConfig == [default |-> FALSE, relays |-> FALSE, boot |-> FALSE]
Default(boot) == [default |-> TRUE, relays |-> TRUE, boot |-> boot]
Given == {c \in Config : ~ c.default}
Filled(n, c) == [by |-> n, cfg |-> c]
Number == 0..MaxCalls
Host == [boot_file : {"absent", "v4::v6", "v4::short v6", "v4"}, ipv6 : BOOLEAN]

Initialising == {"default runtime", "load", "key", "runtime", "config", "swarm",
                 "channel", "network"}
Access == Initialising \cup
  {"idle", "panicked", "lone runtime", "start test", "start test rest",
   "start swarm", "start config", "start runtime", "listen", "consume test",
   "take", "clear", "list swarm", "list config", "list runtime",
   "dial swarm", "dial runtime", "poll runtime", "poll swarm", "polling"}
Panic == {"no swarm", "no config", "no runtime", "nothing to poll",
          "lost swarm", "lost config", "no relay", "one listener", "boot file"}
Result == Panic \cup {"none", "ok", "refused", "late refusal"}

Init ==
  /\ host \in Host
  /\ RUNTIME = 0 /\ NETWORK = 0 /\ SWARM = 0 /\ EVENT_CHANNEL = 0
  /\ NETWORK_CONFIG = Filled(0, NoConfig)
  /\ pc = [t \in Thread |-> "idle"]
  /\ call = [t \in Thread |-> 0]
  /\ cfg = [t \in Thread |-> NoConfig]
  /\ result = [t \in Thread |-> "none"]
  /\ listening = {} /\ calls = 0
  /\ disturbed = {} /\ spoiled = FALSE

-----------------------------------------------------------------------------
(* The steps of a call *)

Goto(t, label) ==
  /\ pc' = [pc EXCEPT ![t] = label]
  /\ UNCHANGED <<call, result, calls>>
\* A call returns, or unwinds: then its thread makes no further call.
End(t, how) ==
  /\ pc' = [pc EXCEPT ![t] = IF how \in Panic THEN "panicked" ELSE "idle"]
  /\ result' = [result EXCEPT ![t] = how]
  /\ call' = [call EXCEPT ![t] = 0]
  /\ UNCHANGED calls

\* BOUND: MaxCalls.
Begin(t, label, c) ==
  /\ pc[t] = "idle" /\ calls < MaxCalls
  /\ calls' = calls + 1
  /\ call' = [call EXCEPT ![t] = calls + 1]
  /\ cfg' = [cfg EXCEPT ![t] = c]
  /\ pc' = [pc EXCEPT ![t] = label]
  /\ result' = [result EXCEPT ![t] = "none"]
  /\ disturbed' = disturbed \ {t}
  /\ UNCHANGED <<host, globals, listening, spoiled>>

\* A write falls into the initialisations of the other threads.
Disturb(t) ==
  disturbed' = disturbed \cup {u \in Thread \ {t} : pc[u] \in Initialising}
Reads(t, label) ==
  /\ pc[t] = label
  /\ UNCHANGED <<host, globals, cfg, listening, history>>

\* `unwrap` of a global borrowed at `label`.
Borrow(t, label, filled, next, panic) ==
  /\ Reads(t, label)
  /\ IF filled THEN Goto(t, next) ELSE End(t, panic)
\* A test of a global with an early return.
Test(t, label, filled, next, refusal) == Borrow(t, label, filled, next, refusal)

-----------------------------------------------------------------------------
(* Initialisation *)

init_runtime_call(t) == Begin(t, "lone runtime", NoConfig)
initialise_default(t) == Begin(t, "default runtime", NoConfig)
initialise_with_private_key(t) == \E c \in Given : Begin(t, "key", c)
initialise_with_network(t) == \E c \in Given : Begin(t, "runtime", c)

\* Runtime::new may fail: the error is returned and what was filled stays.
SetRuntime(t) ==
  /\ RUNTIME' = call[t]
  /\ Disturb(t)
  /\ UNCHANGED <<host, NETWORK, NETWORK_CONFIG, SWARM, EVENT_CHANNEL, cfg, listening>>
RuntimeFails(t) ==
  /\ End(t, "refused")
  /\ UNCHANGED <<host, globals, cfg, listening, disturbed>>

LoneRuntime(t) ==
  /\ pc[t] = "lone runtime"
  /\ \/ SetRuntime(t) /\ End(t, "ok") /\ spoiled' = TRUE
     \/ RuntimeFails(t) /\ UNCHANGED spoiled

DefaultRuntime(t) ==
  /\ pc[t] = "default runtime"
  /\ \/ SetRuntime(t) /\ Goto(t, "load")
     \/ RuntimeFails(t)
  /\ UNCHANGED spoiled

\* load_bootnodes takes the text after the first "::" for the IPv6 address, or
\* panics when there is none; an abbreviated address it cuts in two, which is
\* no address: from_str is unwrapped if IPv6 is supported.
boot_file_parses ==
  CASE host.boot_file = "v4" -> FALSE
    [] host.boot_file = "v4::short v6" -> ~ host.ipv6
    [] OTHER -> TRUE
load_bootnodes(t) ==
  /\ pc[t] = "load"
  /\ \/ /\ boot_file_parses
        /\ cfg' = [cfg EXCEPT ![t] = Default(host.boot_file # "absent")]
        /\ Goto(t, "key") /\ UNCHANGED spoiled
     \/ /\ ~ boot_file_parses
        /\ End(t, "boot file")
        /\ spoiled' = TRUE /\ UNCHANGED cfg
  /\ UNCHANGED <<host, globals, listening, disturbed>>

\* NETWORK is filled before the runtime is there, and again at the end.
SetKey(t) ==
  /\ pc[t] = "key"
  /\ NETWORK' = call[t]
  /\ Disturb(t) /\ Goto(t, "runtime")
  /\ UNCHANGED <<host, RUNTIME, NETWORK_CONFIG, SWARM, EVENT_CHANNEL, cfg,
                 listening, spoiled>>

\* Mutants: a runtime that is there is kept; the error is dropped.
init_runtime_skip(t) ==
  /\ pc[t] = "runtime" /\ Goto(t, "config")
  /\ IF RUNTIME = 0 THEN SetRuntime(t)
     ELSE UNCHANGED <<host, globals, cfg, listening, disturbed>>
  /\ UNCHANGED spoiled
init_runtime_ignore(t) ==
  /\ pc[t] = "runtime" /\ Goto(t, "config")
  /\ \/ SetRuntime(t)
     \/ UNCHANGED <<host, globals, cfg, listening, disturbed>>
  /\ UNCHANGED spoiled
init_runtime(t) ==
  /\ pc[t] = "runtime"
  /\ \/ SetRuntime(t) /\ Goto(t, "config") /\ UNCHANGED spoiled
     \/ RuntimeFails(t) /\ spoiled' = TRUE

SetConfig(t) ==
  /\ pc[t] = "config"
  /\ NETWORK_CONFIG' = Filled(call[t], cfg[t])
  /\ Disturb(t) /\ Goto(t, "swarm")
  /\ UNCHANGED <<host, RUNTIME, NETWORK, SWARM, EVENT_CHANNEL, cfg, listening,
                 spoiled>>

\* Mutant: get_or_insert.
SetSwarm_once(t) ==
  /\ pc[t] = "swarm"
  /\ SWARM' = IF SWARM = 0 THEN call[t] ELSE SWARM
  /\ Disturb(t) /\ Goto(t, "channel")
  /\ UNCHANGED <<host, RUNTIME, NETWORK, NETWORK_CONFIG, EVENT_CHANNEL, cfg,
                 listening, spoiled>>
SetSwarm(t) ==
  /\ pc[t] = "swarm"
  /\ SWARM' = call[t]
  /\ Disturb(t) /\ Goto(t, "channel")
  /\ UNCHANGED <<host, RUNTIME, NETWORK, NETWORK_CONFIG, EVENT_CHANNEL, cfg,
                 listening, spoiled>>

SetChannel(t) ==
  /\ pc[t] = "channel"
  /\ EVENT_CHANNEL' = call[t]
  /\ Disturb(t) /\ Goto(t, "network")
  /\ UNCHANGED <<host, RUNTIME, NETWORK, NETWORK_CONFIG, SWARM, cfg, listening,
                 spoiled>>

SetNetwork(t) ==
  /\ pc[t] = "network"
  /\ NETWORK' = call[t]
  /\ Disturb(t) /\ End(t, "ok")
  /\ spoiled' = (t \in disturbed)
  /\ UNCHANGED <<host, RUNTIME, NETWORK_CONFIG, SWARM, EVENT_CHANNEL, cfg, listening>>

Initialise(t) ==
  \/ LoneRuntime(t) \/ DefaultRuntime(t) \/ load_bootnodes(t) \/ SetKey(t)
  \/ init_runtime(t) \/ SetConfig(t) \/ SetSwarm(t) \/ SetChannel(t) \/ SetNetwork(t)

-----------------------------------------------------------------------------
(* start_network and consume_swarm *)

start_network(t) == Begin(t, "start test", NoConfig)

StartTest(t) ==
  \/ Test(t, "start test", SWARM # 0, "start test rest", "refused")
  \/ Test(t, "start test rest",
          NETWORK # 0 /\ NETWORK_CONFIG.by # 0 /\ EVENT_CHANNEL # 0,
          "start swarm", "refused")
StartBorrow(t) ==
  \/ Borrow(t, "start swarm", SWARM # 0, "start config", "lost swarm")
  \/ Borrow(t, "start config", NETWORK_CONFIG.by # 0, "start runtime", "lost config")
  \/ Test(t, "start runtime", RUNTIME # 0, "listen", "late refusal")

\* start_listening unwraps the first boot node to listen through a relay, then
\* asks for two listeners; both results are unwrapped unless both are errors.
\* Mutants: it listens on what was taken; it goes without a relay.
start_listening_taken(t) ==
  /\ pc[t] = "listen"
  /\ NETWORK_CONFIG.cfg.relays => NETWORK_CONFIG.cfg.boot
  /\ listening' = listening \cup
       {[swarm |-> SWARM, runtime |-> RUNTIME, cfg |-> NETWORK_CONFIG.cfg]}
  /\ End(t, "ok")
  /\ UNCHANGED <<host, globals, cfg, history>>
start_listening_direct(t) ==
  /\ pc[t] = "listen" /\ SWARM # 0
  /\ listening' = listening \cup
       {[swarm |-> SWARM, runtime |-> RUNTIME, cfg |-> NETWORK_CONFIG.cfg]}
  /\ End(t, "ok")
  /\ UNCHANGED <<host, globals, cfg, history>>
start_listening(t) ==
  LET c == NETWORK_CONFIG.cfg IN
  /\ pc[t] = "listen"
  /\ \/ c.relays /\ ~ c.boot /\ End(t, "no relay") /\ UNCHANGED listening
     \/ /\ c.relays => c.boot
        /\ \E v4, v6 \in BOOLEAN :
             /\ listening' =
                  IF SWARM # 0 /\ (v4 \/ v6)
                  THEN listening \cup {[swarm |-> SWARM, runtime |-> RUNTIME, cfg |-> c]}
                  ELSE listening
             /\ End(t, IF v4 /\ v6 THEN "ok"
                       ELSE IF v4 \/ v6 THEN "one listener" ELSE "refused")
  /\ UNCHANGED <<host, globals, cfg, history>>

consume_swarm(t) == Begin(t, "consume test", NoConfig)

\* Option::take is a read and a write.
Consume(t) ==
  \/ Borrow(t, "consume test", SWARM # 0, "take", "no swarm")
  \/ Borrow(t, "take", SWARM # 0, "clear", "lost swarm")
  \/ /\ pc[t] = "clear"
     /\ SWARM' = 0
     /\ End(t, "ok")
     /\ UNCHANGED <<host, RUNTIME, NETWORK, NETWORK_CONFIG, EVENT_CHANNEL, cfg,
                    listening, history>>

-----------------------------------------------------------------------------
(* Calls that ask or act on the swarm inside block_on, and the event stream *)

list_nodes(t) == Begin(t, "list swarm", NoConfig)
list_bootnodes(t) == Begin(t, "list config", NoConfig)
dial(t) == Begin(t, "dial swarm", NoConfig)
poll_next(t) == Begin(t, "poll runtime", NoConfig)

List(t) ==
  \/ Borrow(t, "list swarm", SWARM # 0, "list runtime", "no swarm")
  \/ Borrow(t, "list config", NETWORK_CONFIG.by # 0, "list runtime", "no config")
  \/ \E how \in {"ok", "refused"} :   \* ping refuses a text that is no id
       /\ Reads(t, "list runtime")
       /\ End(t, IF RUNTIME = 0 THEN "no runtime" ELSE how)

Dial(t) ==
  \/ Borrow(t, "dial swarm", SWARM # 0, "dial runtime", "no swarm")
  \/ \E how \in {"ok", "refused"} :
       /\ Reads(t, "dial runtime")
       /\ End(t, IF RUNTIME = 0 THEN "late refusal" ELSE how)

\* poll_next blocks its thread until the swarm has an event.
Poll(t) ==
  \/ Borrow(t, "poll runtime", RUNTIME # 0, "poll swarm", "nothing to poll")
  \/ Borrow(t, "poll swarm", SWARM # 0, "polling", "nothing to poll")
  \/ Reads(t, "polling") /\ End(t, "ok")

-----------------------------------------------------------------------------
Call(t) ==
  \/ init_runtime_call(t) \/ initialise_default(t)
  \/ initialise_with_private_key(t) \/ initialise_with_network(t)
  \/ start_network(t) \/ consume_swarm(t)
  \/ list_nodes(t) \/ list_bootnodes(t) \/ dial(t) \/ poll_next(t)

Step(t) ==
  \/ Initialise(t)
  \/ StartTest(t) \/ StartBorrow(t) \/ start_listening(t)
  \/ Consume(t) \/ List(t) \/ Dial(t) \/ Poll(t)

Next == \E t \in Thread : Call(t) \/ Step(t)

Spec == Init /\ [][Next]_vars

-----------------------------------------------------------------------------
(* Properties *)

\* The shape of the state.
TypeOK ==
  /\ host \in Host
  /\ RUNTIME \in Number /\ NETWORK \in Number
  /\ SWARM \in Number /\ EVENT_CHANNEL \in Number
  /\ NETWORK_CONFIG \in [by : Number, cfg : Config]
  /\ pc \in [Thread -> Access]
  /\ call \in [Thread -> Number]
  /\ cfg \in [Thread -> Config]
  /\ result \in [Thread -> Result]
  /\ listening \subseteq [swarm : Number \ {0}, runtime : Number, cfg : Config]
  /\ calls \in Number
  /\ disturbed \subseteq Thread
  /\ spoiled \in BOOLEAN

\* A call that has found a swarm, or a config, also finds the runtime and the
\* config it needs, whatever the other threads are doing: no unwrap of RUNTIME
\* behind one of SWARM fails, and the errors "Initialise Runtime before
\* invoking ..." behind them are never returned.
SwarmBringsRuntime ==
  /\ SWARM # 0 \/ NETWORK_CONFIG.by # 0 => RUNTIME # 0 /\ NETWORK_CONFIG.by # 0
  /\ \A t \in Thread : result[t] \notin {"no runtime", "late refusal", "lost config"}

Quiet == \A t \in Thread : pc[t] \notin Initialising

\* One initialise that runs to its end with no other beside it makes all five
\* globals its own, whatever failed, raced or was consumed before it; only a
\* lone init_runtime or another initialise can mix them again.
OneInitialise ==
  Quiet /\ ~ spoiled /\ SWARM # 0 =>
    /\ RUNTIME = SWARM /\ NETWORK = SWARM
    /\ NETWORK_CONFIG.by = SWARM /\ EVENT_CHANNEL = SWARM

\* The listeners of the swarm in the globals live on the runtime in the
\* globals, even when start_network runs beside an initialise: a started
\* network goes deaf only by a lone, a failed or an overlapping call.
ListenersLive ==
  Quiet /\ ~ spoiled =>
    \A l \in listening : l.swarm = SWARM => l.runtime = RUNTIME

\* What initialise_default made listens only on a host with a boot_nodes.txt
\* that load_bootnodes can read: without the file the call succeeds, and
\* start_network ends at the unwrap of the first boot node.
DefaultNeedsBootNodes ==
  \A l \in listening : l.cfg.default =>
    host.boot_file # "absent" /\ boot_file_parses
=============================================================================
