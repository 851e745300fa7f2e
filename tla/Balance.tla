------------------------------ MODULE Balance ------------------------------
(***************************************************************************)
(* The load balancer (utility/load_balance.h) and the way a reactor makes one *)
(* (io/reactor.cpp, create_load_balancer()).                                  *)
(*                                                                           *)
(* Every operation is under _mutex and so one step.  Connections of a         *)
(* resource are opened by whoever it was given to and closed at any time.     *)
(***************************************************************************)
EXTENDS Integers, Sequences, SequencesExt

CONSTANTS Resources, MaxOps, MaxPicks, \* bounds: changes, selections
          None

Strategies == {"round_robin", "random", "least_connections"}

VARIABLES
  resources, \* _resources
  strategy,  \* _strategy; None: a null pointer
  index,     \* round_robin_strategy::_index
  conns,     \* resource -> open connections
  picks,     \* what select() returned since the last update()
  ops, broken \* changes so far; a null strategy was followed

vars == <<resources, strategy, index, conns, picks, ops, broken>>

(* factory_template::create() knows no "least_connection_strategy", and ROUND_ROBIN     *)
(* falls through to RANDOM.                                                            *)
CreateLoadBalancer(s) == IF s = "least_connections" THEN None ELSE "random"

Init ==
  /\ resources = <<>> /\ index = 0
  /\ \/ strategy = "round_robin"
     \/ strategy \in {CreateLoadBalancer(s) : s \in Strategies}
  /\ conns = [r \in Resources |-> 0]
  /\ picks = <<>> /\ ops = 0 /\ broken = FALSE

(* notify_strategy_update(): only round robin does something. *)
Update(s, i) == IF s = "round_robin" THEN 0 ELSE i

Change(rs, s) ==
  /\ ~broken /\ ops < MaxOps /\ ops' = ops + 1
  /\ resources' = rs /\ strategy' = s
  /\ index' = Update(s, index) /\ picks' = <<>>
  /\ broken' = (s = None)
  /\ UNCHANGED conns

(* add_resource(), add_resources(): duplicates too. *)
AddResources(rs) == Change(resources \o rs, strategy)

(* del_resource(): the first that equals it. *)
DelResource(r) ==
  \E i \in DOMAIN resources :
    /\ resources[i] = r /\ \A j \in 1 .. i - 1 : resources[j] # r
    /\ Change(RemoveAt(resources, i), strategy)

(* set_strategy(): the new strategy starts at 0, and update() says so again. *)
SetStrategy(s) == Change(resources, s)

-----------------------------------------------------------------------------
(* select() of the strategies: the positions it may return. *)
RoundRobin(i) == {(i % Len(resources)) + 1}
RandomPick == DOMAIN resources
LeastConnections ==
  {i \in DOMAIN resources : \A j \in DOMAIN resources :
     IF j < i THEN conns[resources[i]] < conns[resources[j]]
              ELSE conns[resources[i]] <= conns[resources[j]]}

(* get_nect(); select() throws when there is nothing. *)
GetNext ==
  /\ ~broken /\ Len(picks) < MaxPicks
  /\ IF strategy = None \/ resources = <<>>
     THEN /\ broken' = (strategy = None)
          /\ UNCHANGED <<index, conns, picks>>
     ELSE /\ \E k \in CASE strategy = "round_robin" -> RoundRobin(index)
                        [] strategy = "random" -> RandomPick
                        [] strategy = "least_connections" -> LeastConnections :
               /\ picks' = Append(picks, k)
               /\ conns' = [conns EXCEPT ![resources[k]] = @ + 1]
          /\ index' = IF strategy = "round_robin" THEN index + 1 ELSE index
          /\ UNCHANGED broken
  /\ UNCHANGED <<resources, strategy, ops>>

Close(r) ==
  /\ conns[r] > 0
  /\ conns' = [conns EXCEPT ![r] = @ - 1]
  /\ UNCHANGED <<resources, strategy, index, picks, ops, broken>>

Next ==
  \/ \E r \in Resources : AddResources(<<r>>) \/ AddResources(<<r, r>>) \/ DelResource(r) \/ Close(r)
  \/ \E s \in Strategies : SetStrategy(s)
  \/ GetNext

Spec == Init /\ [][Next]_vars

-----------------------------------------------------------------------------
(* How often entry i was given. *)
Given(i) == Cardinality({p \in DOMAIN picks : picks[p] = i})

(* Since the resources or the strategy last changed, round robin has given each entry of *)
(* the list as often as any other, give or take one, whatever was selected, removed or   *)
(* switched before (round_robin_strategy::select(), load_balancer::notify_strategy_update()). *)
SharesEven ==
  strategy = "round_robin" => \A i, j \in DOMAIN resources : Given(i) <= Given(j) + 1

(* The inductive invariant: _index counts the selections, and the entries it has passed   *)
(* in this round are one ahead.                                                           *)
TypeOK ==
  /\ index \in Nat /\ resources \in Seq(Resources) /\ picks \in Seq(Nat)
  /\ strategy \in Strategies \cup {None}
RoundInv ==
  strategy = "round_robin" =>
    \E turns \in 0 .. Len(picks) : \A i \in DOMAIN resources :
      Given(i) = IF i <= index % Len(resources) THEN turns + 1 ELSE turns
IndInv == TypeOK /\ RoundInv
=============================================================================
