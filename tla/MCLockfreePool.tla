--------------------------- MODULE MCLockfreePool ---------------------------
(* The lock-free pool and other utilities.  A behaviour is about one of five: focus     *)
(* says which, and the others stay as they were.                                        *)
(*   pool      two threads on three slots: one thread can stop inside alloc() while the *)
(*             other takes two slots and gives them back in another order, the case the *)
(*             counter is there for;                                                    *)
(*   cli       four names for commands and aliases, two changes, lines with options,    *)
(*             subcommands and unknown words;                                           *)
(*   balance   two resources, three changes and three selections between changes;       *)
(*   observer  three tokens, three registrations, a thread that notifies;               *)
(*   nodes     the pool with a lock, on three nodes.                                    *)
EXTENDS LockfreePool

CONSTANTS Names, Subs, Lines, Scripts, MaxChanges, None, Resources, MaxPicks, Tokens,
          Notifiers, MaxIds

VARIABLES focus, cmds, alias, prompt, running, matches, at, broken, ops, resources, strategy,
          bindex, conns, picks, bops, bbroken, callbacks, nextId, token, orphans, todo, late,
          pup, pfree, pnext, psize, pobjs, pknown, pheld, pignored, pbroken

C == INSTANCE Cli WITH MaxOps <- MaxChanges
B == INSTANCE Balance WITH index <- bindex, ops <- bops, broken <- bbroken, MaxOps <- MaxChanges
O == INSTANCE Observer
P == INSTANCE ObjectPool WITH up <- pup, free <- pfree, next <- pnext, size <- psize, objs <- pobjs,
                              known <- pknown, held <- pheld, ignored <- pignored, broken <- pbroken

(* A null pointer is no strategy, and a token that does not exist is no token. *)
ASSUME NoneAssumption == None \notin B!Strategies /\ None \notin [id : Nat, subject : BOOLEAN]

cvars == <<cmds, alias, prompt, running, matches, at, broken, ops>>
bvars == <<resources, strategy, bindex, conns, picks, bops, bbroken>>
ovars == <<callbacks, nextId, token, orphans, todo, late>>
pvars == <<pup, pfree, pnext, psize, pobjs, pknown, pheld, pignored, pbroken>>
allvars == <<focus, vars, cvars, bvars, ovars, pvars>>

MCLines == {<<>>, <<"h">>, <<"q">>, <<"quit", "-h">>, <<"quit", "s">>, <<"quit", "--help", "w">>,
            <<"x", "w">>, <<"-h">>}
MCScripts == {<<<<"#">>, <<"h">>>>, <<<<"y">>, <<"quit">>>>}

InitAll ==
  /\ focus \in {"pool", "cli", "balance", "observer", "nodes"}
  /\ Init /\ C!Init /\ B!Init /\ O!Init /\ P!Init
  /\ focus # "balance" => strategy = "round_robin"

NextAll ==
  /\ UNCHANGED focus
  /\ \/ focus = "pool" /\ Next /\ UNCHANGED <<cvars, bvars, ovars, pvars>>
     \/ focus = "cli" /\ C!Next /\ UNCHANGED <<vars, bvars, ovars, pvars>>
     \/ focus = "balance" /\ B!Next /\ UNCHANGED <<vars, cvars, ovars, pvars>>
     \/ focus = "observer" /\ O!Next /\ UNCHANGED <<vars, cvars, bvars, pvars>>
     \/ focus = "nodes" /\ P!Next /\ UNCHANGED <<vars, cvars, bvars, ovars>>

SpecAll == InitAll /\ [][NextAll]_allvars

(* Each alias is listed by a command that is there (Cli).                       *)
AliasesOwned == C!AliasesOwned

(* Round robin shares evenly, tokens stand for registrations, and every node of the *)
(* locked pool is accounted for (Balance, Observer, ObjectPool).                *)
UtilitiesSound == B!SharesEven /\ O!TokensSound /\ P!NodesAccounted
=============================================================================
