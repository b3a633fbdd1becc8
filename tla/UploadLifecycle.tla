--------------------------- MODULE UploadLifecycle ---------------------------
(***************************************************************************)
(* What the upload pipeline promises the rest of the system, without       *)
(* leases, objects or workers: an upload is opened once, is settled once   *)
(* as verified or failed, a verified upload is only ever revoked together  *)
(* with its owner's account, and a profile shows uploads of its own        *)
(* account that are verified at that moment.                               *)
(***************************************************************************)
EXTENDS FiniteSets

CONSTANTS Users, Uploads, Owner, LegacyPhotos

VARIABLES
    state,     \* absent, open, verified or failed
    shown,     \* the photos a profile shows
    gone       \* anonymized accounts

lvars == <<state, shown, gone>>

LInit ==
    /\ state = [u \in Uploads |-> "absent"]
    /\ shown \in [Users -> SUBSET LegacyPhotos]
    /\ gone = {}

OpenUpload(u) ==
    /\ state[u] = "absent"
    /\ Owner[u] \notin gone
    /\ state' = [state EXCEPT ![u] = "open"]
    /\ UNCHANGED <<shown, gone>>

\* A cleanup batch may settle several uploads as failed at once.
Expire(us) ==
    /\ \A u \in us : state[u] = "open"
    /\ state' = [u \in Uploads |-> IF u \in us THEN "failed" ELSE state[u]]
    /\ UNCHANGED <<shown, gone>>

Verify(u) ==
    /\ state[u] = "open"
    /\ state' = [state EXCEPT ![u] = "verified"]
    /\ UNCHANGED <<shown, gone>>

Show(user, ps) ==
    /\ user \notin gone
    /\ ps # {}
    /\ \A p \in ps :
         \/ p \in Uploads /\ Owner[p] = user /\ state[p] = "verified"
         \/ p \in LegacyPhotos \cap shown[user]
    /\ shown' = [shown EXCEPT ![user] = ps]
    /\ UNCHANGED <<state, gone>>

Forget(user) ==
    /\ user \notin gone
    /\ gone' = gone \cup {user}
    /\ shown' = [shown EXCEPT ![user] = {}]
    /\ state' = [u \in Uploads |->
                   IF Owner[u] = user /\ state[u] # "absent" THEN "failed" ELSE state[u]]

LNext ==
    \/ \E u \in Uploads : OpenUpload(u) \/ Verify(u)
    \/ \E us \in SUBSET Uploads : Expire(us)
    \/ \E user \in Users, ps \in SUBSET (Uploads \cup LegacyPhotos) : Show(user, ps)
    \/ \E user \in Users : Forget(user)

LSpec == LInit /\ [][LNext]_lvars
=============================================================================
