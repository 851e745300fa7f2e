----------------------------- MODULE MCLeftRight -----------------------------
(* left_right and the containers built on it.  A behaviour is about one of the    *)
(* two: focus says which, and the other stays as it was.                          *)
(*   left_right   two readers that share no counter (or one), two writers: the    *)
(*                smallest instance in which a scan of is_empty() can be          *)
(*                overtaken on both sides;                                        *)
(*   containers   each kind of container, two elements, instances of up to three. *)
EXTENDS LeftRight, TLC

CONSTANTS r1, r2, Values, Moved, MaxLen

VARIABLES focus, kind, cinst, cside, job, ideal, tainted

C == INSTANCE LrContainers WITH inst <- cinst, side <- cside

cvars == <<kind, cinst, cside, job, ideal, tainted>>
allvars == <<focus, vars, cvars>>

MCSlotOf == (r1 :> 0) @@ (r2 :> 1)

InitAll ==
  /\ focus \in {"left_right", "containers"}
  /\ Init /\ C!Init
  /\ focus = "left_right" => kind = "list"

NextAll ==
  /\ UNCHANGED focus
  /\ \/ focus = "left_right" /\ Next /\ UNCHANGED cvars
     \/ focus = "containers" /\ C!Next /\ UNCHANGED vars

(* As FairSpec. *)
FairAll ==
  /\ InitAll /\ [][NextAll]_allvars
  /\ \A r \in Readers : WF_vars(focus = "left_right" /\ ReadStep(r))
  /\ \A w \in Writers : WF_vars(focus = "left_right" /\ WriteStep(w))

(* Readers of a container find what its users mean (LrContainers). *)
ReadersSeeIdeal == C!ReadersSeeIdeal
=============================================================================
