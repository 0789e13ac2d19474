---------------------------- MODULE PolicyAdmin -----------------------------
(***************************************************************************)
(* The life of one tenant's policies in PostgreSQL: the handlers of the    *)
(* control plane (internal/server/handlers_policy.go) and the transactions *)
(* they end in (internal/storage/postgres.go).  Publishing reads the       *)
(* policy, compiles what it read and then activates the row by its id, in  *)
(* two transactions between which other administrators go on.             *)
(*                                                                         *)
(* A text is told apart by what the compiler says of it: Good texts are    *)
(* one statement that compiles, Pairs are several statements of which the  *)
(* first compiles, Broken texts fail.  Blank texts and unknown effects are *)
(* refused before the database.  The version number of a row, which        *)
(* counts its publications, is left out.                                   *)
(***************************************************************************)
EXTENDS Naturals

CONSTANTS
  Policies,           \* policy ids, which the database never uses again
  Good, Pairs, Broken,
  Sessions,           \* publish requests that can be under way at once
  NoText,
  MaxRevision         \* bound: changes of the active set

Texts == Good \cup Pairs \cup Broken

ASSUME AdminAssumption ==
  /\ NoText \notin Texts
  /\ Good \cap (Pairs \cup Broken) = {}
  /\ Pairs \cap Broken = {}
  /\ MaxRevision \in Nat \ {0}

VARIABLES
  rows,        \* per id: its text, its status and the text its ast_json was made from
  revision,    \* tenants.revision
  committed,   \* every active set there has been, with its revision
  session      \* per publish request: the policy and the text it compiled

adminVars == <<rows, revision, committed, session>>

NoRow == [text |-> NoText, status |-> "none", ast |-> NoText]
Idle == [id |-> "none", text |-> NoText]

(* The policies GetTenantPolicyBundle selects.                              *)
Bundle == {<<p, rows[p].text>> : p \in {q \in Policies : rows[q].status = "ACTIVE"}}

Versioned(n, policies) == [rev |-> n, policies |-> policies]

AdminInit ==
  /\ rows = [p \in Policies |-> NoRow]
  /\ revision = 1
  /\ committed = {Versioned(1, {})}
  /\ session = [s \in Sessions |-> Idle]

Exists(p) == rows[p].status \in {"DRAFT", "ACTIVE"}

-----------------------------------------------------------------------------

(* incrementTenantRevisionAndNotify: in the transaction of the change; if   *)
(* it fails nothing is committed, so nothing happens here.                  *)
incrementTenantRevisionAndNotify ==
  /\ revision < MaxRevision
  /\ revision' = revision + 1
  /\ committed' = committed \cup {Versioned(revision', Bundle')}

handleCreatePolicy(p, text) ==
  /\ rows[p].status = "none"
  /\ rows' = [rows EXCEPT ![p] = [text |-> text, status |-> "DRAFT", ast |-> NoText]]
  /\ UNCHANGED <<revision, committed, session>>

(* Mutant of handleUpdatePolicy: an ACTIVE policy goes back to DRAFT        *)
(* without a new revision.                                                  *)
UpdateSilently(p, text) ==
  /\ Exists(p)
  /\ rows' = [rows EXCEPT ![p] = [text |-> text, status |-> "DRAFT", ast |-> NoText]]
  /\ UNCHANGED <<revision, committed, session>>

(* updatePolicy returns the status it found under FOR UPDATE; only a policy *)
(* that was ACTIVE changes the active set.                                  *)
handleUpdatePolicy(p, text) ==
  /\ Exists(p)
  /\ rows' = [rows EXCEPT ![p] = [text |-> text, status |-> "DRAFT", ast |-> NoText]]
  /\ IF rows[p].status = "ACTIVE" THEN incrementTenantRevisionAndNotify
     ELSE UNCHANGED <<revision, committed>>
  /\ UNCHANGED session

(* The id is not used again.                                                *)
handleDeletePolicy(p) ==
  /\ Exists(p)
  /\ rows' = [rows EXCEPT ![p] = [NoRow EXCEPT !.status = "deleted"]]
  /\ incrementTenantRevisionAndNotify
  /\ UNCHANGED session

(* The first half of publishing: the policy is read and every statement of  *)
(* it must parse; only the first is compiled.                               *)
PublishReads(s, p) ==
  /\ session[s] = Idle
  /\ Exists(p)
  /\ rows[p].text \in Good \cup Pairs
  /\ session' = [session EXCEPT ![s] = [id |-> p, text |-> rows[p].text]]
  /\ UNCHANGED <<rows, revision, committed>>

(* The second half, publishPolicy: whatever text the row holds by now is    *)
(* ACTIVE, with the syntax tree of the text that was read.                  *)
PublishWrites(s) ==
  LET p == session[s].id
  IN /\ session[s] # Idle
     /\ Exists(p)
     /\ rows' = [rows EXCEPT ![p].status = "ACTIVE", ![p].ast = session[s].text]
     /\ incrementTenantRevisionAndNotify
     /\ session' = [session EXCEPT ![s] = Idle]

(* The policy is gone, or the transaction fails: nothing is written.        *)
PublishFails(s) ==
  /\ session[s] # Idle
  /\ session' = [session EXCEPT ![s] = Idle]
  /\ UNCHANGED <<rows, revision, committed>>

AdminStep ==
  \/ \E p \in Policies, text \in Texts : handleCreatePolicy(p, text) \/ handleUpdatePolicy(p, text)
  \/ \E p \in Policies : handleDeletePolicy(p)
  \/ \E s \in Sessions : PublishWrites(s) \/ PublishFails(s)
  \/ \E s \in Sessions, p \in Policies : PublishReads(s, p)

AdminSpec == AdminInit /\ [][AdminStep]_adminVars

-----------------------------------------------------------------------------
(* What the /publish endpoint is described to do, "compile, check the       *)
(* safety of and activate the policy": the text that handlePublishPolicy    *)
(* activates is the text it compiled.                                       *)
ActivatesWhatItCompiled ==
  \A p \in Policies : rows[p].status = "ACTIVE" => rows[p].ast = rows[p].text

=============================================================================
