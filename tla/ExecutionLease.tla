--------------------------- MODULE ExecutionLease ---------------------------
(***************************************************************************)
(* The file-backed lease of runtime/execution_lease.py: one record per     *)
(* execution, rewritten under a file lock, with a fencing token that every *)
(* acquisition increments.  A worker is one coordinator object: it keeps   *)
(* the token of its last acquisition for as long as it lives, whatever     *)
(* happens to the lease meanwhile.  Several workers may use one owner id   *)
(* (RuntimeBootstrap and build_execution_loop both default to one name).   *)
(*                                                                         *)
(* Time is a countdown: ttl is what is left of expires_at - now, and Tick  *)
(* lets one unit pass for every lease.                                     *)
(***************************************************************************)
EXTENDS Naturals

CONSTANTS
  Workers,     \* coordinator objects (threads or processes)
  Executions,  \* execution identities
  Owners,      \* lease owner ids
  OwnerOf,     \* the owner id each worker presents
  NoOwner,     \* the empty owner id of a released or absent lease
  Ttl,         \* length of a lease, in units of time
  MaxToken     \* bound: acquisitions per execution

\* Assumed by the modules that use leases.
LeaseAssumption ==
  /\ OwnerOf \in [Workers -> Owners]
  /\ NoOwner \notin Owners
  /\ Ttl \in Nat \ {0}
  /\ MaxToken \in Nat

VARIABLES
  lease,  \* the lease file; token 0 is a missing record
  token   \* the fencing token each worker carries; 0 is None

leaseVars == <<lease, token>>

Lease == [owner : Owners \union {NoOwner}, token : Nat, ttl : 0..Ttl]

LeaseTypeOK ==
  /\ lease \in [Executions -> Lease]
  /\ token \in [Workers -> Nat]

\* is_owner_unlocked(execution, owner, fencing_token)
IsOwner(w, e) ==
  /\ lease[e].owner = OwnerOf[w]
  /\ lease[e].token = token[w]
  /\ lease[e].ttl > 0

----------------------------------------------------------------------------
LeaseInit ==
  /\ lease = [e \in Executions |-> [owner |-> NoOwner, token |-> 0, ttl |-> 0]]
  /\ token = [w \in Workers |-> 0]

\* Mutant: an owner that acquires again keeps its token.
Acquire_TokenReused(w, e) ==
  /\ ~ (lease[e].ttl > 0 /\ lease[e].owner # OwnerOf[w])
  /\ lease[e].token < MaxToken
  /\ LET fresh == IF lease[e].owner = OwnerOf[w] THEN lease[e].token
                                               ELSE lease[e].token + 1
     IN  /\ lease' = [lease EXCEPT ![e] =
                         [owner |-> OwnerOf[w], token |-> fresh, ttl |-> Ttl]]
         /\ token' = [token EXCEPT ![w] = fresh]

\* acquire: refused only while ANOTHER owner id holds an unexpired lease, so
\* an owner that acquires again gets a new token and fences its older self.
Acquire(w, e) ==
  /\ ~ (lease[e].ttl > 0 /\ lease[e].owner # OwnerOf[w])
  /\ lease[e].token < MaxToken
  /\ lease' = [lease EXCEPT ![e] =
                 [owner |-> OwnerOf[w], token |-> @.token + 1, ttl |-> Ttl]]
  /\ token' = [token EXCEPT ![w] = lease[e].token + 1]

\* Mutant: renew does not ask whether the lease has expired.
Renew_Expired(w, e) ==
  /\ lease[e].owner = OwnerOf[w]
  /\ lease[e].token = token[w]
  /\ lease' = [lease EXCEPT ![e].ttl = Ttl]
  /\ UNCHANGED token

\* Mutant: renew adds to the old deadline instead of starting from now.
Renew_Accumulates(w, e) ==
  /\ IsOwner(w, e)
  /\ lease' = [lease EXCEPT ![e].ttl = @ + Ttl]
  /\ UNCHANGED token

\* renew with a fencing token: the deadline moves, the token stays.
Renew(w, e) ==
  /\ IsOwner(w, e)
  /\ lease' = [lease EXCEPT ![e].ttl = Ttl]
  /\ UNCHANGED token

\* release with a fencing token: expiry is not asked about, and the worker
\* that releases goes on carrying its token.
Release(w, e) ==
  /\ lease[e].owner = OwnerOf[w]
  /\ lease[e].token = token[w]
  /\ lease' = [lease EXCEPT ![e].owner = NoOwner, ![e].ttl = 0]
  /\ UNCHANGED token

\* One unit of time for every lease file entry.
Tick ==
  /\ \E e \in Executions : lease[e].ttl > 0
  /\ lease' = [e \in Executions |->
                 [lease[e] EXCEPT !.ttl = IF @ > 0 THEN @ - 1 ELSE 0]]
  /\ UNCHANGED token

\* A process restart: the token was only in memory.
Forget(w) ==
  /\ token' = [token EXCEPT ![w] = 0]
  /\ UNCHANGED lease

LeaseNext ==
  \/ \E w \in Workers, e \in Executions :
       Acquire(w, e) \/ Renew(w, e) \/ Release(w, e)
  \/ \E w \in Workers : Forget(w)
  \/ Tick

LeaseSpec == LeaseInit /\ [][LeaseNext]_leaseVars

----------------------------------------------------------------------------
(* Properties *)

\* What is_owner tells a coordinator is true of at most one coordinator at a
\* time, also when several coordinators present the same owner id: the token
\* check in is_owner_unlocked has to tell them apart.  It can, but for a number
\* from another execution: tokens are counted per execution, and a coordinator
\* keeps one token for all of them.
ExclusiveHolder ==
  \A e \in Executions, v, w \in Workers :
    IsOwner(v, e) /\ IsOwner(w, e) /\ v # w
      => \E f \in Executions \ {e} : lease[f].token >= token[w]

\* Ownership that was lost (by expiry, release or a rival's acquisition) only
\* returns with a new token: neither renew nor a later event revives the old
\* one.  A number that the execution has yet to reach comes from another one.
LostLeaseStaysLost ==
  [][\A w \in Workers, e \in Executions :
       ~ IsOwner(w, e) /\ IsOwner(w, e)'
         => token'[w] # token[w] \/ token[w] > lease[e].token]_leaseVars

=============================================================================
