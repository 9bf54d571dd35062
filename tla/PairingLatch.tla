---------------------------- MODULE PairingLatch ----------------------------
(***************************************************************************)
(* What a pairing session promises (docs/trust/pairing-spec.md section 4): *)
(* pending, then at most one join, then at most one of approved, rejected  *)
(* and expired; trust is granted in the same step as the approval, and to  *)
(* the key that joined.  No stores, no clock, no requests.                 *)
(***************************************************************************)
CONSTANTS Sessions, Keys, NoKey

VARIABLES
    state,    \* [Sessions -> status]
    joined,   \* [Sessions -> key that joined, or NoKey]
    granted   \* <<session, key>> pairs

vars == <<state, joined, granted>>

Init ==
    /\ state = [s \in Sessions |-> "absent"]
    /\ joined = [s \in Sessions |-> NoKey]
    /\ granted = {}

Create(s) ==
    /\ state[s] = "absent"
    /\ state' = [state EXCEPT ![s] = "pending"]
    /\ UNCHANGED <<joined, granted>>

Join(s, k) ==
    /\ state[s] = "pending" /\ joined[s] = NoKey
    /\ joined' = [joined EXCEPT ![s] = k]
    /\ UNCHANGED <<state, granted>>

Approve(s) ==
    /\ state[s] = "pending" /\ joined[s] # NoKey
    /\ state' = [state EXCEPT ![s] = "approved"]
    /\ granted' = granted \cup {<<s, joined[s]>>}
    /\ UNCHANGED joined

\* Rejecting, or letting the session expire, grants nothing.
Close(s, verdict) ==
    /\ state[s] = "pending"
    /\ state' = [state EXCEPT ![s] = verdict]
    /\ UNCHANGED <<joined, granted>>

Next ==
    \E s \in Sessions :
        \/ Create(s) \/ Approve(s)
        \/ Close(s, "rejected") \/ Close(s, "expired")
        \/ \E k \in Keys : Join(s, k)

Spec == Init /\ [][Next]_vars

=============================================================================
