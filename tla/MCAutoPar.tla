----------------------------- MODULE MCAutoPar -----------------------------
(***************************************************************************)
(* Every well-formed body of three statements over a catalogue of          *)
(* statement kinds, one per distinction the analysis or the planner makes, *)
(* and of four statements over a part of it.                               *)
(***************************************************************************)
EXTENDS AutoPar

CONSTANTS
  Wide,       \* catalogue entries of the three-statement bodies
  Deep        \* catalogue entries of the four-statement bodies

Eff(verb, resource, key) == [verb |-> verb, resource |-> resource, key |-> key]

Plain ==
  [let_introduced |-> {}, assigned |-> {}, pattern |-> "none", value_reads |-> {}, else_reads |-> {},
   effects |-> <<>>, hidden_effects |-> <<>>, connection |-> "none",
   calls_polymorphic |-> FALSE, returns |-> FALSE, has_early_exit |-> FALSE, has_channel_op |-> FALSE,
   has_console_output |-> FALSE, is_timer_suspend |-> FALSE, is_safe_network_fanout |-> FALSE,
   is_ephemeral_network_fanout |-> FALSE, method_fanout_receiver_root |-> NoRoot,
   is_constant_init |-> FALSE, calls_enclosing_fn |-> FALSE, consuming_reads |-> {},
   moving_reads |-> {}, is_par_block |-> FALSE]

Let(n, s) == [s EXCEPT !.let_introduced = {n}, !.pattern = "binding"]

NetCall == <<Eff("sends", "Network", NoKey), Eff("receives", "Network", NoKey)>>

Method(conn) ==
  [Plain EXCEPT !.effects = NetCall, !.connection = conn, !.value_reads = {conn},
   !.method_fanout_receiver_root = conn]

Catalogue ==
  [let_alloc     |-> Let("a", [Plain EXCEPT !.value_reads = {"m"}, !.effects = <<Eff("allocates", "Heap", NoKey)>>]),
   let_query     |-> Let("b", [Plain EXCEPT !.effects = <<Eff("reads", "Db", NoKey)>>]),
   let_of_a      |-> Let("b", [Plain EXCEPT !.value_reads = {"a"}, !.effects = <<Eff("reads", "Db", "k1")>>]),
   update_all    |-> [Plain EXCEPT !.value_reads = {"m"}, !.effects = <<Eff("writes", "Db", NoKey)>>],
   update_k1     |-> [Plain EXCEPT !.effects = <<Eff("writes", "Db", "k1")>>],
   read_then_k2  |-> [Plain EXCEPT !.effects = <<Eff("reads", "Db", "k2"), Eff("writes", "Db", "k2")>>],
   assign_m      |-> [Plain EXCEPT !.assigned = {"m"}, !.effects = <<Eff("reads", "Db", NoKey)>>],
   log_m         |-> [Plain EXCEPT !.value_reads = {"m"}, !.effects = <<Eff("logs", "Log", NoKey)>>],
   push_v        |-> [Plain EXCEPT !.value_reads = {"v"}, !.assigned = {"v"},
                      !.effects = <<Eff("allocates", "Heap", NoKey)>>],
   consume_s     |-> [Plain EXCEPT !.value_reads = {"s"}, !.consuming_reads = {"s"},
                      !.effects = <<Eff("logs", "Log", NoKey)>>],
   println       |-> [Plain EXCEPT !.value_reads = {"m"}, !.effects = <<Eff("writes", "Stdout", NoKey)>>,
                      !.has_console_output = TRUE],
   report        |-> [Plain EXCEPT !.effects = <<Eff("reads", "Db", NoKey), Eff("writes", "Stdout", NoKey)>>],
   sleep         |-> [Plain EXCEPT !.effects = <<Eff("suspends", "Timer", NoKey)>>, !.is_timer_suspend = TRUE],
   fetch         |-> Let("a", [Plain EXCEPT !.effects = NetCall, !.is_safe_network_fanout = TRUE,
                               !.is_ephemeral_network_fanout = TRUE]),
   send_on_c1    |-> Method("c1"),
   send_on_c2    |-> Method("c2"),
   borrow_c1     |-> [Plain EXCEPT !.effects = NetCall, !.connection = "c1", !.value_reads = {"c1"},
                      !.is_safe_network_fanout = TRUE],
   recv          |-> Let("b", [Plain EXCEPT !.effects = <<Eff("receives", "Channel", NoKey)>>,
                               !.connection = "queue", !.has_channel_op = TRUE]),
   call_generic  |-> [Plain EXCEPT !.calls_polymorphic = TRUE, !.value_reads = {"m"},
                      !.hidden_effects = <<Eff("writes", "Db", NoKey)>>],
   guard_passed  |-> [Plain EXCEPT !.value_reads = {"m"}, !.has_early_exit = TRUE],
   guard_taken   |-> [Plain EXCEPT !.value_reads = {"m"}, !.has_early_exit = TRUE, !.returns = TRUE],
   let_constant  |-> Let("a", [Plain EXCEPT !.is_constant_init = TRUE]),
   let_pair      |-> [Plain EXCEPT !.let_introduced = {"a", "b"}, !.pattern = "destructure",
                      !.effects = <<Eff("reads", "Db", NoKey)>>],
   recurse       |-> [Plain EXCEPT !.effects = <<Eff("reads", "Db", NoKey)>>, !.calls_enclosing_fn = TRUE],
   let_heap      |-> Let("h", [Plain EXCEPT !.effects = <<Eff("reads", "Db", NoKey)>>]),
   take_h        |-> [Plain EXCEPT !.value_reads = {"h"}, !.consuming_reads = {"h"}, !.moving_reads = {"h"},
                      !.effects = <<Eff("logs", "Log", NoKey)>>],
   par_block     |-> [Plain EXCEPT !.effects = <<Eff("reads", "Db", NoKey)>>, !.is_par_block = TRUE],
   let_else      |-> [Plain EXCEPT !.let_introduced = {"a"}, !.pattern = "destructure", !.else_reads = {"m"},
                      !.has_early_exit = TRUE, !.returns = TRUE]]

\* Names in scope before statement k, and those moved out of by then.
InScope(ss, k) == Entry \cup UNION {ss[i].let_introduced : i \in 1 .. k - 1}

Moved(ss, k) == UNION {ss[i].consuming_reads : i \in 1 .. k - 1}

WellFormed(ss) ==
  \A k \in DOMAIN ss :
    /\ reads(ss[k]) \cup ss[k].assigned \subseteq InScope(ss, k) \ Moved(ss, k)
    /\ ss[k].let_introduced \cap InScope(ss, k) = {}

\* The tail expression reads nothing, or everything still there to be read.
BodiesOf(n, kinds) ==
  {[stmts |-> ss, final_reads |-> IF tail THEN InScope(ss, n + 1) \ Moved(ss, n + 1) ELSE {}] :
     ss \in {ss \in [1 .. n -> {Catalogue[c] : c \in kinds}] : WellFormed(ss)}, tail \in BOOLEAN}

MCBodies == BodiesOf(3, Wide) \cup BodiesOf(4, Deep)

EveryKind == DOMAIN Catalogue \ {"let_else"}

MCEntry == {"m", "v", "s", "c1", "c2"}

MCNames == MCEntry \cup {"a", "b", "h"}

MCContainers == {"v", "s", "h"}

MCKeys == {"k1", "k2"}
=============================================================================
