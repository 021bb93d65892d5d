----------------------------- MODULE PlanClaims -----------------------------
(***************************************************************************)
(* What the documents say of change plans, and the code does not do.  Each *)
(* property is stated as the document states it, and a run refutes it.     *)
(***************************************************************************)
EXTENDS PlanAndApply

(* docs/phase-6-playbook.md:204: a promotion's plan "must pass unchanged   *)
(* through `account apply`", as long as nothing changed in between.        *)
PromotionsPassApply ==
    [][plan # NoPlan /\ plan.by = "promotion" /\ plan.at = changes /\ plan' = NoPlan =>
          outcome' \in {"applied", "converged"}]_vars
=============================================================================
