-------------------------- MODULE ProvisioningProofs --------------------------
(***************************************************************************)
(* Proofs about Provisioning, for any directory and any number of faults,  *)
(* troubles, renames and runs: the passwords, the users whose data is      *)
(* migrated, the summary, and the harmlessness of a simulation.            *)
(***************************************************************************)
EXTENDS Provisioning, FiniteSetTheorems, TLAPS

Row == [email : Emails, status : Statuses]
Handling ==
  {"register", "simulate", "provision", "aliases", "created", "existing", "recheck", "confirm",
   "failed"}
Over == {"filter", "recover", "done"}
UnderWay == {"user"} \union Handling \union Over

\* Who is handled and who is left
Order ==
  /\ pc \in Handling => user \in todo
  /\ pc \in Over => todo = {}
  /\ pc \in UnderWay => \A u \in Users : results[u] = "none" <=> u \in todo
  /\ pc \notin UnderWay => \A u \in Users : results[u] = "none"

\* A simulation asks Google Workspace nothing.
Rehearsal ==
  pc \in UnderWay =>
    IF dry THEN /\ pc \notin Handling \ {"register", "simulate"}
                /\ \A u \in Users : results[u] # "CREATED"
           ELSE pc # "simulate"

\* When the users are done, no password is in memory only.
Exported == pc \in Over => \A u \in Users : results[u] = "CREATED" => email[u] \in csv

\* The account is there, or this run has been told so.
Believed(e) == account[e] # "absent" \/ e \in mistaken

Found == pc \in {"aliases", "created", "existing", "confirm"} => Believed(mail)

\* What the table says of the users of this run
Truthful ==
  ~dry /\ pc \in UnderWay =>
    \A u, v \in Users :
      /\ results[u] # "none"
      /\ rows[v] # NoRow /\ rows[v].email = email[u] /\ rows[v].status \in Provisioned
      => Believed(email[u])

Counted ==
  ~uncounted /\ pc \in UnderWay =>
    tally.created + tally.existing + tally.failed + Cardinality(todo) = Cardinality(Users)

\* Held and ActiveHaveAccounts, e-mail by e-mail
HasPassword(e) ==
  (\E u \in Users : results[u] = "CREATED" /\ email[u] = e) \/ (pc \in {"aliases", "created"} /\ mail = e)

IInv ==
  /\ TypeOK /\ Order /\ Rehearsal /\ Exported /\ Found /\ Truthful /\ Counted
  /\ PasswordsExplained /\ ActiveHaveAccounts

\* The passwords a run holds are those of the users it has created accounts for.
LEMMA HeldMeans ==
  /\ \A e : e \in Held <=> HasPassword(e)
  /\ \A e : e \in Held' <=> HasPassword(e)'
BY DEF Held, HasPassword

\* UPDATE ... WHERE email leaves the e-mails alone, and the other rows.
LEMMA UpdatedRows ==
  ASSUME TypeOK, NEW s \in Statuses
  PROVE  /\ Updated(s) \in [Users -> {NoRow} \union Row]
         /\ \A v \in Users :
              Updated(s)[v] # NoRow /\ Updated(s)[v].status \in Provisioned =>
                /\ rows[v] # NoRow /\ Updated(s)[v].email = rows[v].email
                /\ IF rows[v].email = mail THEN s \in Provisioned ELSE rows[v].status \in Provisioned
<1>1. rows \in [Users -> {NoRow} \union Row] /\ mail \in Emails
  BY DEF TypeOK, Row, mail
<1>2. ASSUME NEW v \in Users, rows[v] # NoRow, rows[v].email = mail
      PROVE  /\ [rows[v] EXCEPT !.status = s] \in Row
             /\ [rows[v] EXCEPT !.status = s].email = rows[v].email
             /\ [rows[v] EXCEPT !.status = s].status = s
  <2>1. rows[v] \in Row
    BY <1>1, <1>2
  <2> QED
    BY <2>1 DEF Row
<1> QED
  BY <1>1, <1>2 DEF Updated

\* One more in one field is one more in the sum.
LEMMA Counting ==
  ASSUME NEW f \in {"created", "existing", "failed"}, tally \in [created : Nat, existing : Nat, failed : Nat],
         Count(f)
  PROVE  /\ tally' \in [created : Nat, existing : Nat, failed : Nat]
         /\ tally'.created + tally'.existing + tally'.failed
              = tally.created + tally.existing + tally.failed + 1
BY DEF Count

\* One user less to do
LEMMA OneLess ==
  ASSUME todo \subseteq Users, user \in todo
  PROVE  /\ Cardinality(todo) \in Nat /\ Cardinality(todo \ {user}) \in Nat
         /\ Cardinality(todo) = Cardinality(todo \ {user}) + 1
<1>1. IsFiniteSet(todo)
  BY UsersAssumption, FS_Subset
<1>2. IsFiniteSet(todo \ {user}) /\ Cardinality(todo \ {user}) = Cardinality(todo) - 1
  BY <1>1, FS_RemoveElement
<1>3. Cardinality(todo) \in Nat /\ Cardinality(todo \ {user}) \in Nat
  BY <1>1, <1>2, FS_CardinalityType
<1> QED
  BY <1>2, <1>3

\* The counts of a run begin at nothing.
LEMMA TallyStarts == NoTally \in [created : Nat, existing : Nat, failed : Nat]
BY DEF NoTally

\* A migration that has not begun has a store without rows.
LEMMA InitInv == Init => IInv
<1> SUFFICES ASSUME Init PROVE IInv
  OBVIOUS
<1>1. TypeOK
  <2>1. 0 \in 0 .. MaxFaults /\ 0 \in 0 .. MaxTroubles /\ 0 \in 0 .. MaxRenames /\ 0 \in 0 .. MaxRuns
    BY BoundsAssumption
  <2>2. account \in [Emails -> {"absent", "theirs", "ours"}] /\ email \in [Users -> Emails]
    BY EmailAssumption DEF Init
  <2>3. tally \in [created : Nat, existing : Nat, failed : Nat]
    BY TallyStarts DEF Init
  <2> QED
    BY <2>1, <2>2, <2>3 DEF Init, TypeOK, At
<1> QED
  BY <1>1 DEF Init, IInv, Order, Rehearsal, Exported, Found, Believed, Truthful, Counted, PasswordsExplained,
    ActiveHaveAccounts, UnderWay, Handling, Over

\* The types, first for the steps that handle no user, then for those that do.
LEMMA TypeOutside ==
  ASSUME TypeOK, Start \/ Crash \/ Steer \/ Rename \/ Export \/ Filter \/ Recover \/ Terminated
  PROVE  TypeOK'
<1> USE DEF TypeOK, world, store, loop, outcome, histories, bounds
<1>0. Held \subseteq Emails
  BY DEF Held, mail
<1>1. CASE Start
  <2>1. tally' \in [created : Nat, existing : Nat, failed : Nat]
    BY <1>1, TallyStarts DEF Start
  <2>2. runs' \in 0 .. MaxRuns
    BY <1>1, BoundsAssumption DEF Start
  <2> QED
    BY <1>1, <2>1, <2>2 DEF Start, At
<1>2. CASE Crash
  BY <1>0, <1>2 DEF Crash, Lose, At
<1>3. CASE Steer
  BY <1>3 DEF Steer
<1>4. CASE Rename
  BY <1>4, BoundsAssumption DEF Rename, At
<1>5. CASE Export
  BY <1>0, <1>5 DEF Export, At
<1>6. CASE Filter
  BY <1>6 DEF Filter, Listed, At
<1>7. CASE Recover
  <2>1. rows' \in [Users -> {NoRow} \union Row]
    <3>1. \A u \in Users : rows[u] \in Row => [rows[u] EXCEPT !.status = "EXISTING"] \in Row
      BY DEF Row, Statuses
    <3> QED
      BY <1>7, <3>1 DEF Recover, Row
  <2> QED
    BY <1>7, <2>1 DEF Recover, Row, At
<1>8. CASE Terminated
  BY <1>8 DEF Terminated, vars
<1> QED
  BY <1>1, <1>2, <1>3, <1>4, <1>5, <1>6, <1>7, <1>8

\* The steps that handle a user keep the types.
LEMMA TypeInside ==
  ASSUME TypeOK, StageStep
  PROVE  TypeOK'
<1> USE DEF TypeOK, world, store, loop, outcome, histories, bounds
<1>0. Held \subseteq Emails /\ mail \in Emails
  BY DEF Held, mail
<1>1. ASSUME NEW s \in Statuses, rows' = Updated(s)
      PROVE  rows' \in [Users -> {NoRow} \union [email : Emails, status : Statuses]]
  BY <1>1, UpdatedRows DEF Row
<1>2. ASSUME NEW f \in {"created", "existing", "failed"}, Count(f)
      PROVE  tally' \in [created : Nat, existing : Nat, failed : Nat]
  BY <1>2, Counting
<1>3. ASSUME NEW s \in Statuses, Handle(s)
      PROVE  results' \in [Users -> Statuses \union {"none"}] /\ todo' \subseteq Users /\ pc' \in At
  BY <1>3 DEF Handle, At
<1>4. ASSUME Trouble
      PROVE  troubles' \in 0 .. MaxTroubles
  BY <1>4, BoundsAssumption DEF Trouble
<1>5. ASSUME Abort
      PROVE  results' \in [Users -> Statuses \union {"none"}] /\ forgot' \subseteq Emails /\ pc' \in At
  BY <1>0, <1>5 DEF Abort, Lose, At
<1>6. CASE Export \/ Filter \/ Recover
  BY <1>6, TypeOutside
<1>7. CASE NextUser
  BY <1>5, <1>7 DEF NextUser, At
<1>8. CASE Register
  <2>1. [email |-> mail, status |-> "PENDING"] \in [email : Emails, status : Statuses]
    BY <1>0 DEF Statuses
  <2>2. rows' \in [Users -> {NoRow} \union [email : Emails, status : Statuses]]
    BY <1>8, <2>1 DEF Register
  <2> QED
    BY <1>8, <2>2 DEF Register, AfterRegister, At
<1>9. CASE Simulate
  BY <1>1, <1>2, <1>3, <1>9 DEF Simulate, Statuses
<1>10. CASE StoreRaises \/ ExportRaises
  BY <1>4, <1>5, <1>10 DEF StoreRaises, ExportRaises
<1>11. CASE ProvisionCreates \/ ProvisionFinds \/ ProvisionRaises \/ Recheck
  BY <1>0, <1>4, <1>11 DEF ProvisionCreates, ProvisionFinds, ProvisionRaises, Recheck, At
<1>19. CASE AliasesAdded \/ AliasRaises \/ ProvisionMistakes
  BY <1>0, <1>4, <1>19 DEF AliasesAdded, AliasRaises, ProvisionMistakes, Lose, At
<1>12. CASE ProvisionUnheard
  BY <1>0, <1>12, BoundsAssumption DEF ProvisionUnheard, Lose
<1>13. CASE Created
  BY <1>1, <1>2, <1>3, <1>13 DEF Created, CreatedResult, Statuses
<1>14. CASE ExistingFound \/ Confirm
  BY <1>1, <1>2, <1>3, <1>14 DEF ExistingFound, Confirm, Statuses
<1>15. CASE Failed
  BY <1>1, <1>2, <1>3, <1>15 DEF Failed, Statuses
<1>16. CASE UpdateRaises
  <2>1. pc \in {"created", "existing"} /\ Count(pc) /\ forgot' \subseteq Emails /\ pc' \in At
    BY <1>0, <1>16 DEF UpdateRaises, Lose, At
  <2> QED
    BY <1>2, <1>4, <1>16, <2>1 DEF UpdateRaises
<1>17. CASE ConfirmRaises
  BY <1>2, <1>4, <1>17 DEF ConfirmRaises, At
<1>18. CASE FailedRaises
  BY <1>2, <1>4, <1>5, <1>18 DEF FailedRaises
<1> QED
  BY <1>6, <1>7, <1>8, <1>9, <1>10, <1>11, <1>12, <1>13, <1>14, <1>15, <1>16, <1>17, <1>18, <1>19
  DEF StageStep

\* A run that is lost takes its passwords along: they are remembered as forgotten.
LEMMA LostRuns ==
  ASSUME IInv, TypeOK', UNCHANGED <<email, account, csv, mistaken>>,
         pc' \notin UnderWay, results' = [u \in Users |-> "none"],
         Held \subseteq csv \union forgot', forgot \subseteq forgot'
  PROVE  IInv'
<1>1. PasswordsExplained'
  BY DEF IInv, PasswordsExplained
<1> QED
  BY <1>1 DEF IInv, Order, Rehearsal, Exported, Found, Believed, Truthful, Counted, ActiveHaveAccounts,
    UnderWay, Handling, Over

\* What crashes and exceptions lose is remembered, whatever the state of the run.
LEMMA Lost ==
  ASSUME IInv, Crash \/ Rename \/ StoreRaises \/ ExportRaises \/ FailedRaises
  PROVE  IInv'
<1>1. TypeOK'
  BY TypeInside, TypeOutside DEF IInv, StageStep
<1>2. CASE ~Rename
  BY <1>1, <1>2, LostRuns DEF Crash, StoreRaises, ExportRaises, FailedRaises, Abort, Lose, world, store,
    UnderWay, Handling, Over
<1>3. CASE Rename
  <2>1. PICK u \in Users, e \in Emails \ {email[v] : v \in Users} : email' = [email EXCEPT ![u] = e]
    BY <1>3 DEF Rename
  <2>2. Held \subseteq csv
    BY <1>3, HeldMeans DEF IInv, Order, Exported, Rename, Running, HasPassword, UnderWay, Handling, Over,
      TypeOK, At
  <2>3. PasswordsExplained'
    BY <1>3, <2>2 DEF IInv, PasswordsExplained, Rename, store, histories
  <2> QED
    BY <1>1, <1>3, <2>3 DEF Rename, IInv, Order, Rehearsal, Exported, Found, Believed, Truthful, Counted,
      ActiveHaveAccounts, UnderWay, Handling, Over
<1> QED
  BY <1>2, <1>3

\* A run begins when the one before has exported its passwords or lost them.
LEMMA Begins ==
  ASSUME IInv, Start
  PROVE  IInv'
<1>1. TypeOK'
  BY TypeOutside DEF IInv
<1>2. /\ pc \notin UnderWay \ {"done"} /\ pc' = "user" /\ todo' = Users
      /\ results' = [u \in Users |-> "none"] /\ tally' = NoTally /\ active' = {}
      /\ UNCHANGED <<email, account, rows, csv, forgot>>
  BY DEF Start, Running, UnderWay, Handling, Over, world, store, IInv, TypeOK, At
<1>3. Held \subseteq csv
  BY <1>2, HeldMeans DEF IInv, Order, Exported, HasPassword, UnderWay, Handling, Over
<1>4. PasswordsExplained'
  BY <1>2, <1>3 DEF IInv, PasswordsExplained
<1>5. Counted'
  <2>1. Cardinality(Users) \in Nat
    BY UsersAssumption, FS_CardinalityType
  <2> QED
    BY <1>2, <2>1 DEF Counted, NoTally
<1> QED
  BY <1>1, <1>2, <1>4, <1>5 DEF IInv, Order, Rehearsal, Exported, Found, Believed, Truthful, ActiveHaveAccounts,
    UnderWay, Handling, Over

\* Steps between users leave the results alone, or lose them.
LEMMA Between ==
  ASSUME IInv, Steer \/ NextUser \/ Export \/ Filter \/ Recover \/ Terminated
  PROVE  IInv'
<1>0. TypeOK'
  BY TypeInside, TypeOutside DEF IInv, StageStep
<1> USE DEF UnderWay, Handling, Over, world, store, loop, outcome, histories
<1>1. CASE Steer \/ Terminated
  <2>1. /\ UNCHANGED <<email, account, rows, csv, pc, dry, todo, user, results, tally, active, forgot, mistaken, uncounted>>
    BY <1>1 DEF Steer, Terminated, vars
  <2>2. Held' = Held /\ mail' = mail
    BY <2>1 DEF Held, mail
  <2> QED
    BY <1>0, <2>1, <2>2 DEF IInv, Order, Rehearsal, Exported, Found, Believed, Truthful, Counted,
      PasswordsExplained, ActiveHaveAccounts
<1>2. CASE NextUser
  <2>1. CASE ctl = "CANCELLED"
    BY <1>0, <1>2, <2>1, LostRuns DEF NextUser, Abort, Lose
  <2>2. CASE ctl # "CANCELLED"
    <3>1. /\ pc = "user" /\ pc' = "register" /\ user' \in todo
          /\ UNCHANGED <<email, account, rows, csv, dry, todo, results, tally, active, forgot, mistaken, uncounted>>
      BY <1>2, <2>2 DEF NextUser
    <3>2. Held' = Held
      BY <3>1 DEF Held
    <3> QED
      BY <1>0, <3>1, <3>2 DEF IInv, Order, Rehearsal, Exported, Found, Believed, Truthful, Counted,
        PasswordsExplained, ActiveHaveAccounts
  <2> QED
    BY <2>1, <2>2
<1>3. CASE Export
  <2>1. /\ pc = "user" /\ pc' = "filter" /\ todo = {}
        /\ UNCHANGED <<email, account, rows, dry, todo, user, results, tally, active, forgot, mistaken, uncounted>>
        /\ csv' = IF dry \/ Held = {} THEN csv ELSE csv \union Held
    BY <1>3 DEF Export
  <2>2. Held' = Held
    BY <2>1 DEF Held
  <2>3. Exported'
    <3>1. ASSUME NEW u \in Users, results[u] = "CREATED"
          PROVE  ~dry /\ email[u] \in Held
      BY <2>1, <3>1, HeldMeans DEF IInv, Rehearsal, HasPassword
    <3> QED
      BY <2>1, <3>1 DEF Exported
  <2>4. PasswordsExplained'
    BY <2>1, <2>2 DEF IInv, PasswordsExplained
  <2> QED
    BY <1>0, <2>1, <2>3, <2>4 DEF IInv, Order, Rehearsal, Found, Believed, Truthful, Counted, ActiveHaveAccounts
<1>4. CASE Filter
  <2>1. /\ pc = "filter" /\ pc' \in {"recover", "done"} /\ todo = {}
        /\ UNCHANGED <<email, account, rows, csv, dry, todo, user, results, tally, forgot, mistaken, uncounted>>
        /\ active' = IF dry THEN Users ELSE Listed
    BY <1>4 DEF Filter, IInv, Order
  <2>2. Held' = Held
    BY <2>1 DEF Held
  <2>3. ActiveHaveAccounts'
    <3>1. ASSUME ~dry, NEW u \in Listed
          PROVE  Believed(email[u])
      BY <2>1, <3>1 DEF Listed, IInv, Order, Truthful
    <3> QED
      BY <2>1, <3>1 DEF ActiveHaveAccounts, Believed
  <2> QED
    BY <1>0, <2>1, <2>2, <2>3 DEF IInv, Order, Rehearsal, Exported, Found, Believed, Truthful, Counted, PasswordsExplained
<1>5. CASE Recover
  <2>1. /\ pc = "recover" /\ pc' = "done"
        /\ active' \in SUBSET {u \in Users : account[email[u]] # "absent"}
        /\ UNCHANGED <<email, account, csv, dry, todo, user, results, tally, forgot, mistaken, uncounted>>
    BY <1>5 DEF Recover
  <2>2. Held' = Held
    BY <2>1 DEF Held
  <2>3. ASSUME NEW u \in Users, NEW v \in Users, ~dry, results[u] # "none",
               rows'[v] # NoRow, rows'[v].email = email[u], rows'[v].status \in Provisioned
        PROVE  Believed(email[u])
    <3>1. CASE rows[v] # NoRow /\ \E w \in active' : email[w] = rows[v].email
      <4>1. rows'[v] = [rows[v] EXCEPT !.status = "EXISTING"] /\ rows[v] \in Row
        BY <1>5, <3>1 DEF Recover, IInv, TypeOK, Row
      <4>2. rows'[v].email = rows[v].email
        BY <4>1 DEF Row
      <4> QED
        BY <2>1, <2>3, <3>1, <4>2 DEF Believed
    <3>2. CASE ~(rows[v] # NoRow /\ \E w \in active' : email[w] = rows[v].email)
      <4>1. rows'[v] = rows[v]
        BY <1>5, <3>2 DEF Recover
      <4> QED
        BY <2>1, <2>3, <4>1 DEF IInv, Truthful
    <3> QED
      BY <3>1, <3>2
  <2>4. Truthful' /\ ActiveHaveAccounts'
    BY <2>1, <2>3 DEF Truthful, ActiveHaveAccounts, Believed
  <2> QED
    BY <1>0, <2>1, <2>2, <2>4 DEF IInv, Order, Rehearsal, Exported, Found, Counted, PasswordsExplained
<1> QED
  BY <1>1, <1>2, <1>3, <1>4, <1>5

\* The requests for one user, and the row made for it
LEMMA Requests ==
  ASSUME IInv,
         \/ Register \/ ProvisionCreates \/ AliasesAdded \/ AliasRaises \/ ProvisionUnheard
         \/ ProvisionFinds \/ ProvisionMistakes \/ ProvisionRaises \/ Recheck
  PROVE  IInv'
<1>0. TypeOK'
  BY TypeInside DEF IInv, StageStep
<1> USE DEF UnderWay, Handling, Over, world, store, loop, outcome, histories
<1>1. /\ pc \in Handling \ {"simulate", "created", "existing", "confirm", "failed"}
      /\ pc' \in Handling
      /\ UNCHANGED <<email, csv, dry, todo, user, results, tally, active, uncounted>>
      /\ mistaken \subseteq mistaken'
  BY DEF Register, AfterRegister, ProvisionCreates, AliasesAdded, AliasRaises, ProvisionUnheard,
    ProvisionFinds, ProvisionMistakes, ProvisionRaises, Recheck
<1>3. /\ \A e \in Emails : account[e] # "absent" => account'[e] # "absent"
      /\ \A e \in Emails : account'[e] = "ours" =>
           account[e] = "ours"
             \/ (e = mail /\ (pc' \in {"aliases", "created"} \/ e \in csv \union forgot'))
      /\ forgot \subseteq forgot'
      /\ pc \in {"aliases", "created"} =>
           pc' \in {"aliases", "created"} \/ mail \in csv \union forgot'
  <2>1. CASE ProvisionCreates
    BY <2>1 DEF ProvisionCreates, IInv, TypeOK
  <2>2. CASE ProvisionUnheard
    BY <2>2 DEF ProvisionUnheard, Lose, IInv, TypeOK
  <2>3. CASE Register \/ ProvisionFinds \/ ProvisionMistakes \/ ProvisionRaises \/ Recheck
    BY <2>3 DEF Register, ProvisionFinds, ProvisionMistakes, ProvisionRaises, Recheck
  <2>4. CASE AliasesAdded \/ AliasRaises
    BY <2>4 DEF AliasesAdded, AliasRaises, Lose
  <2> QED
    BY <2>1, <2>2, <2>3, <2>4
<1>4. mail' = mail /\ mail \in Emails
  BY <1>1 DEF mail, IInv, TypeOK
<1>5. Found'
  <2>1. CASE AliasesAdded
    BY <1>4, <2>1 DEF Found, Believed, AliasesAdded, IInv, world, histories
  <2>2. CASE ~AliasesAdded
    BY <1>4, <2>2 DEF Found, Believed, Register, AfterRegister, ProvisionCreates, AliasRaises,
      ProvisionUnheard, ProvisionFinds, ProvisionMistakes, ProvisionRaises, Recheck, IInv, TypeOK
  <2> QED
    BY <2>1, <2>2
<1>6. Rehearsal'
  BY <1>1 DEF IInv, Rehearsal, Register, AfterRegister, ProvisionCreates, AliasesAdded, AliasRaises,
    ProvisionUnheard, ProvisionFinds, ProvisionMistakes, ProvisionRaises, Recheck
<1>7. \A v \in Users : rows'[v] = rows[v] \/ rows'[v].status = "PENDING"
  <2>1. CASE Register
    <3>1. rows' = rows \/ rows' = [rows EXCEPT ![user] = [email |-> mail, status |-> "PENDING"]]
      BY <2>1 DEF Register
    <3> QED
      BY <3>1 DEF IInv, TypeOK
  <2>2. CASE ~Register
    BY <2>2 DEF ProvisionCreates, AliasesAdded, AliasRaises, ProvisionUnheard, ProvisionFinds,
      ProvisionMistakes, ProvisionRaises, Recheck
  <2> QED
    BY <2>1, <2>2
<1>8. Truthful'
  <2>1. "PENDING" \notin Provisioned
    BY DEF Provisioned
  <2>2. \A u \in Users : email[u] \in Emails
    BY DEF IInv, TypeOK
  <2> QED
    BY <1>1, <1>3, <1>7, <2>1, <2>2 DEF IInv, Truthful, Believed
<1>9. PasswordsExplained'
  <2>1. ASSUME NEW e \in Emails, account'[e] = "ours", e \notin csv \union forgot'
        PROVE  HasPassword(e)'
    <3>1. CASE e = mail /\ pc' \in {"aliases", "created"}
      BY <1>4, <3>1 DEF HasPassword
    <3>2. CASE account[e] = "ours"
      <4>1. HasPassword(e)
        BY <1>3, <2>1, <3>2, HeldMeans DEF IInv, PasswordsExplained
      <4> QED
        BY <1>1, <1>3, <1>4, <2>1, <4>1 DEF HasPassword
    <3> QED
      BY <1>3, <2>1, <3>1, <3>2
  <2> QED
    BY <1>1, <2>1, HeldMeans DEF PasswordsExplained
<1> QED
  BY <1>0, <1>1, <1>5, <1>6, <1>8, <1>9 DEF IInv, Order, Exported, Counted, ActiveHaveAccounts

\* A user is counted, recorded and handled.
LEMMA Settling ==
  ASSUME IInv, NEW s \in Statuses, NEW r \in Statuses, NEW f \in {"created", "existing", "failed"},
         pc \in Handling, Count(f), rows' = Updated(s), Handle(r),
         UNCHANGED <<email, account, csv, dry, user, active, forgot, mistaken, uncounted>>,
         TypeOK',
         pc # "aliases", s \in Provisioned /\ ~dry => Believed(mail),
         dry => r # "CREATED",
         pc = "created" => r = "CREATED"
  PROVE  IInv'
<1> USE DEF UnderWay, Handling, Over
<1>1. /\ user \in todo /\ todo \subseteq Users /\ todo' = todo \ {user} /\ pc' = "user"
      /\ results' = [results EXCEPT ![user] = r] /\ r # "none"
  BY DEF Handle, IInv, TypeOK, Order, Statuses
<1>2. Order'
  BY <1>1 DEF IInv, Order, TypeOK
<1>3. Rehearsal'
  BY <1>1 DEF IInv, Rehearsal, TypeOK
<1>4. Truthful'
  <2>1. ASSUME ~dry, NEW u \in Users, NEW v \in Users, results'[u] # "none",
               rows'[v] # NoRow, rows'[v].email = email[u], rows'[v].status \in Provisioned
        PROVE  Believed(email[u])
    <3>1. /\ rows[v] # NoRow /\ rows[v].email = email[u]
          /\ IF rows[v].email = mail THEN s \in Provisioned ELSE rows[v].status \in Provisioned
      BY <2>1, UpdatedRows DEF IInv
    <3>2. CASE email[u] = mail
      BY <2>1, <3>1, <3>2
    <3>3. CASE email[u] # mail
      <4>1. results[u] # "none"
        BY <1>1, <2>1, <3>3 DEF mail, IInv, TypeOK
      <4> QED
        BY <2>1, <3>1, <3>3, <4>1 DEF IInv, Truthful
    <3> QED
      BY <3>2, <3>3
  <2> QED
    BY <1>1, <2>1 DEF Truthful, Believed
<1>5. Counted'
  <2>1. ~uncounted => tally'.created + tally'.existing + tally'.failed + Cardinality(todo')
                        = tally.created + tally.existing + tally.failed + Cardinality(todo)
    <3>1. tally'.created + tally'.existing + tally'.failed = tally.created + tally.existing + tally.failed + 1
      BY Counting DEF IInv, TypeOK
    <3>2. Cardinality(todo) \in Nat /\ Cardinality(todo') \in Nat /\ Cardinality(todo) = Cardinality(todo') + 1
      BY <1>1, OneLess
    <3>3. {tally.created, tally.existing, tally.failed, tally'.created, tally'.existing, tally'.failed} \subseteq Nat
      BY DEF IInv, TypeOK
    <3> QED
      BY <3>1, <3>2, <3>3
  <2> QED
    BY <1>1, <2>1 DEF IInv, Counted
<1>6. PasswordsExplained'
  <2>1. ASSUME NEW e, HasPassword(e)
        PROVE  HasPassword(e)'
    <3>1. CASE pc = "created" /\ mail = e
      <4>1. results'[user] = "CREATED" /\ email'[user] = e /\ user \in Users
        BY <1>1, <3>1 DEF mail, IInv, TypeOK
      <4> QED
        BY <4>1 DEF HasPassword
    <3>2. CASE \E u \in Users : results[u] = "CREATED" /\ email[u] = e
      <4>1. PICK u \in Users : results[u] = "CREATED" /\ email[u] = e
        BY <3>2
      <4>2. u # user
        BY <1>1, <4>1 DEF IInv, Order
      <4>3. results'[u] = "CREATED" /\ email'[u] = e
        BY <1>1, <4>1, <4>2 DEF IInv, TypeOK
      <4> QED
        BY <4>3 DEF HasPassword
    <3> QED
      BY <2>1, <3>1, <3>2 DEF HasPassword
  <2> QED
    BY <2>1, HeldMeans DEF IInv, PasswordsExplained
<1> QED
  BY <1>1, <1>2, <1>3, <1>4, <1>5, <1>6 DEF IInv, Exported, Found, ActiveHaveAccounts

\* The steps that settle a user keep the whole invariant.
LEMMA Settled ==
  ASSUME IInv, Simulate \/ Created \/ ExistingFound \/ Confirm \/ Failed
  PROVE  IInv'
<1>0. TypeOK'
  BY TypeInside DEF IInv, StageStep
<1> USE DEF Statuses, Provisioned, Handling, UnderWay, world, loop, histories
<1>1. CASE Simulate
  <2>1. dry
    BY <1>1 DEF Simulate, IInv, Rehearsal
  <2> QED
    BY <1>0, <1>1, <2>1, Settling DEF Simulate
<1>2. CASE Created
  <2>1. ~dry /\ Believed(mail)
    BY <1>2 DEF Created, IInv, Rehearsal, Found
  <2> QED
    BY <1>0, <1>2, <2>1, Settling DEF Created, CreatedResult
<1>3. CASE ExistingFound \/ Confirm
  <2>1. Believed(mail)
    BY <1>3 DEF ExistingFound, Confirm, IInv, Found
  <2> QED
    BY <1>0, <1>3, <2>1, Settling DEF ExistingFound, Confirm
<1>4. CASE Failed
  BY <1>0, <1>4, Settling DEF Failed
<1> QED
  BY <1>1, <1>2, <1>3, <1>4

\* A store that raises after the count: the user is not handled yet.
LEMMA Raising ==
  ASSUME IInv, UpdateRaises \/ ConfirmRaises
  PROVE  IInv'
<1>0. TypeOK'
  BY TypeInside DEF IInv, StageStep
<1> USE DEF UnderWay, Handling, Over, world, store, loop, outcome, histories
<1>1. /\ pc \in {"created", "existing", "confirm"} /\ pc' \in {"recheck", "failed"} /\ uncounted'
      /\ UNCHANGED <<email, account, rows, csv, dry, todo, user, results, active, mistaken>>
      /\ forgot \subseteq forgot' /\ (pc = "created" => mail \in csv \union forgot')
  BY DEF UpdateRaises, ConfirmRaises, Lose
<1>2. PasswordsExplained'
  <2>1. ASSUME NEW e, HasPassword(e), e \notin csv \union forgot'
        PROVE  HasPassword(e)'
    BY <1>1, <2>1 DEF HasPassword
  <2> QED
    BY <1>1, <2>1, HeldMeans DEF IInv, PasswordsExplained
<1> QED
  BY <1>0, <1>1, <1>2 DEF IInv, Order, Rehearsal, Exported, Found, Believed, Truthful, Counted, ActiveHaveAccounts

\* The invariant of every run, live or simulated, and of everything between runs.
THEOREM Inductive == Spec => []IInv
<1>1. IInv /\ [Next]_vars => IInv'
  <2> SUFFICES ASSUME IInv, [Next]_vars PROVE IInv'
    OBVIOUS
  <2>1. CASE UNCHANGED vars
    BY <2>1 DEF vars, IInv, TypeOK, Order, Rehearsal, Exported, Found, Believed, Truthful, Counted,
      PasswordsExplained, ActiveHaveAccounts, Held, mail
  <2>2. CASE Next
    BY <2>2, Begins, Lost, Between, Requests, Settled, Raising DEF Next, StageStep
  <2> QED
    BY <2>1, <2>2
<1> QED
  BY <1>1, InitInv, PTL DEF Spec

\* The password of an account that the migration created is in a CSV, in the memory of
\* the run, or taken by a crash, a cancellation, a lost answer, a failing store or a broken
\* request for an alias.
THEOREM PasswordsKept == Spec => []PasswordsExplained
<1>1. IInv => PasswordsExplained
  BY DEF IInv
<1> QED
  BY <1>1, Inductive, PTL

\* The later stages of a live run get no user without an account, but for those that
\* an error of this run took for existing.
THEOREM AccountsExist == Spec => []ActiveHaveAccounts
<1>1. IInv => ActiveHaveAccounts
  BY DEF IInv
<1> QED
  BY <1>1, Inductive, PTL

\* The counts of the summary add up to the users, unless a store failed after a count.
THEOREM SummaryAddsUp == Spec => []SummaryCounts
<1>1. IInv => SummaryCounts
  <2> SUFFICES ASSUME IInv, pc = "done", ~uncounted
               PROVE  tally.created + tally.existing + tally.failed = Cardinality(Users)
    BY DEF SummaryCounts
  <2>1. Cardinality(todo) = 0
    BY FS_EmptySet DEF IInv, Order, Over
  <2>2. {tally.created, tally.existing, tally.failed} \subseteq Nat
    BY DEF IInv, TypeOK
  <2> QED
    BY <2>1, <2>2 DEF IInv, Counted, UnderWay, Over
<1> QED
  BY <1>1, Inductive, PTL

\* A simulation touches neither Google Workspace nor the credentials.
THEOREM SimulationSafe == Spec => SimulationIsHarmless
<1>1. IInv /\ [Next]_vars => [dry /\ Running => UNCHANGED <<account, csv>>]_vars
  <2> SUFFICES ASSUME IInv, Next, dry, Running
               PROVE  UNCHANGED <<account, csv>>
    BY DEF vars
  <2>1. pc \notin Handling \ {"register", "simulate"}
    BY DEF IInv, Rehearsal, Running, UnderWay, Over, Handling, TypeOK, At
  <2> QED
    BY <2>1 DEF Next, StageStep, Start, Crash, Steer, Rename, NextUser, Register, Simulate, StoreRaises,
      ProvisionCreates, AliasesAdded, AliasRaises, ProvisionUnheard, ProvisionFinds, ProvisionMistakes,
      ProvisionRaises, Created, ExistingFound,
      UpdateRaises, Recheck, Confirm, ConfirmRaises, Failed, FailedRaises, Export, ExportRaises, Filter,
      Recover, Terminated, vars, world, store, Handling
<1> QED
  BY <1>1, Inductive, PTL DEF Spec, SimulationIsHarmless
=============================================================================
