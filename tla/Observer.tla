------------------------------ MODULE Observer ------------------------------
(***************************************************************************)
(* Observers (common/observer.h): a subject with its callbacks, the tokens    *)
(* that stand for registrations and may be moved, and notify(), which copies  *)
(* the callbacks under the lock and calls them without it.                    *)
(***************************************************************************)
EXTENDS Naturals, FiniteSets

CONSTANTS Tokens,    \* observer_token objects
          Notifiers, \* threads that notify
          MaxIds,    \* bound on registrations
          None

VARIABLES
  callbacks, \* _callbacks: the ids registered
  nextId,    \* _next_id
  token,     \* token -> [id, subject], or None: no such object
  orphans,   \* ids whose token was overwritten by a move
  todo,      \* notifier -> callbacks it has copied and not yet called; None: not in notify()
  late       \* callbacks called after they were unregistered

vars == <<callbacks, nextId, token, orphans, todo, late>>

Init ==
  /\ callbacks = {} /\ nextId = 0 /\ orphans = {} /\ late = {}
  /\ token = [k \in Tokens |-> None]
  /\ todo = [n \in Notifiers |-> None]

Register(k) ==
  /\ token[k] = None /\ nextId < MaxIds
  /\ callbacks' = callbacks \cup {nextId}
  /\ token' = [token EXCEPT ![k] = [id |-> nextId, subject |-> TRUE]]
  /\ nextId' = nextId + 1
  /\ UNCHANGED <<orphans, todo, late>>

(* ~observer_token(): unregister_observer(), unless it was moved from. *)
Destroy(k) ==
  /\ token[k] # None
  /\ token' = [token EXCEPT ![k] = None]
  /\ callbacks' = IF token[k].subject THEN callbacks \ {token[k].id} ELSE callbacks
  /\ UNCHANGED <<nextId, orphans, todo, late>>

(* What a move leaves behind. *)
MovedFrom(k) == [token[k] EXCEPT !.subject = FALSE]

(* The move constructor, and the move assignment, which forgets what the target had. *)
Move(from, to) ==
  /\ from # to /\ token[from] # None
  /\ token' = [token EXCEPT ![to] = token[from], ![from] = MovedFrom(from)]
  /\ orphans' = IF token[to] # None /\ token[to].subject THEN orphans \cup {token[to].id} ELSE orphans
  /\ UNCHANGED <<callbacks, nextId, todo, late>>

Notify(n) ==
  /\ todo[n] = None
  /\ todo' = [todo EXCEPT ![n] = callbacks]
  /\ UNCHANGED <<callbacks, nextId, token, orphans, late>>

Call(n, id) ==
  /\ todo[n] # None /\ id \in todo[n]
  /\ todo' = [todo EXCEPT ![n] = @ \ {id}]
  /\ late' = IF id \in callbacks THEN late ELSE late \cup {id}
  /\ UNCHANGED <<callbacks, nextId, token, orphans>>

NotifyReturns(n) ==
  /\ todo[n] = {}
  /\ todo' = [todo EXCEPT ![n] = None]
  /\ UNCHANGED <<callbacks, nextId, token, orphans, late>>

Next ==
  \/ \E k \in Tokens : Register(k) \/ Destroy(k)
  \/ \E k, l \in Tokens : Move(k, l)
  \/ \E n \in Notifiers :
       Notify(n) \/ NotifyReturns(n) \/ \E id \in 0 .. MaxIds - 1 : Call(n, id)

Spec == Init /\ [][Next]_vars

-----------------------------------------------------------------------------
(* The tokens that stand for a registration. *)
Owners(id) == {k \in Tokens : token[k] # None /\ token[k].subject /\ token[k].id = id}

(* After any moves, a callback stays registered exactly as long as one token stands for   *)
(* it, or for good once a move assignment has overwritten that token, and no two tokens   *)
(* stand for the same one (observer_token's moves and destructor).                        *)
TokensSound ==
  \A id \in 0 .. nextId - 1 :
    /\ Cardinality(Owners(id)) <= 1
    /\ id \in callbacks <=> Owners(id) # {} \/ id \in orphans

(* What the induction needs besides: an id is given once, and an orphan has no token.    *)
TypeOK ==
  /\ nextId \in Nat /\ token \in [Tokens -> [id : Nat, subject : BOOLEAN] \cup {None}]
  /\ callbacks \subseteq 0 .. nextId - 1 /\ orphans \subseteq 0 .. nextId - 1
OwnersInv ==
  /\ \A k \in Tokens : token[k] # None => token[k].id < nextId
  /\ \A k, l \in Tokens :
       token[k] # None /\ token[k].subject /\ token[l] # None /\ token[l].subject
         /\ token[k].id = token[l].id => k = l
  /\ \A id \in orphans : Owners(id) = {}
  /\ \A id \in 0 .. nextId - 1 : id \in callbacks <=> Owners(id) # {} \/ id \in orphans
IndInv == TypeOK /\ OwnersInv
=============================================================================
