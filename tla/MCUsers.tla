-------------------------------- MODULE MCUsers --------------------------------
(***************************************************************************)
(* The instance of users and their sessions and, beside it, of the         *)
(* connection profiles of users.  `part` says which of the two a behaviour *)
(* runs; the profiles then have no state, or the users stay in an initial  *)
(* state.                                                                  *)
(***************************************************************************)
EXTENDS AuthSessions, TLC

CONSTANTS Owners, Admins, Ids, Labels, Groups, MaxActs   \* of the profiles

\* The ids of connections, groups and users are made by createId(): they differ from one
\* another and from the words of the model.
ASSUME IdsAssumption ==
    /\ Owners \cap {"none", "nobody", "kept", "keep", "clear"} = {}
    /\ Ids \cap Groups = {}

VARIABLES part,
          connections, credentials, groups, deleted, reqs, form, sent, acts   \* the profiles

\* The .cfg takes two users, one of them an administrator, two connections and a group.
\* There are as many requests at once, named like the users of the other part: interchangeable.
P == INSTANCE ConnectionProfiles WITH Users <- Owners, Reqs <- Users

profiles == <<connections, credentials, groups, deleted, reqs, form, sent, acts>>
allVars == <<vars, profiles, part>>

\* The variables of a part that does not run.
NoProfiles ==
    /\ connections = 0 /\ credentials = 0 /\ groups = 0 /\ deleted = 0 /\ reqs = 0
    /\ form = 0 /\ sent = 0 /\ acts = 0

\* Bound: the calls begun and the time passed, together at most 5: two calls may see every
\* expiry, three the idle one.
Begun == Cardinality({c \in Calls : calls[c] # Idling})

AllInit ==
    /\ part \in {"auth", "profiles"}
    /\ Init
    /\ part # "auth" => users = [u \in Users |-> NoUser]
    /\ IF part = "profiles" THEN P!Init ELSE NoProfiles

AllNext ==
    \/ part = "auth" /\ Next /\ Begun' + clock' <= 5 /\ UNCHANGED <<profiles, part>>
    \/ part = "profiles" /\ P!Next /\ UNCHANGED <<vars, part>>

AllSpec == AllInit /\ [][AllNext]_allVars

Symmetry == Permutations(Calls) \cup Permutations(Users)

\* What is stored of a connection is always something the server would accept, a deleted one
\* stays deleted, its password with it, and a password is stored with, opened for and sent for
\* the user who typed it and nobody else (ConnectionProfiles).
ProfilesAreSound ==
    part = "profiles" => P!StoredIsValid /\ P!DeletedStaysGone /\ P!SecretIsOwners
=============================================================================
