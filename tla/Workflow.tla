------------------------------- MODULE Workflow -------------------------------
(***************************************************************************)
(* One run of the command line (main.py, agent/workflow.py): pre-flight,   *)
(* discovery (engine/discovery.py, atomic_agents/discovery_agent.py), the  *)
(* choice of users, the confirmation and the stages; over the paged        *)
(* listing of the organisation's users of ZohoAdminClient, which the run   *)
(* makes three times while people join and leave the organisation. What a  *)
(* stage does is in the modules of its agent.                              *)
(***************************************************************************)
EXTENDS Naturals, Sequences, FiniteSets, SequencesExt

CONSTANTS
  Users,
  Dir0,         \* the organisation when the run begins, in the order of Zoho
  Nameless,     \* entries without an e-mail address
  Mailless,     \* users without a mailbox
  Storage,      \* storage_used_bytes of each user, in KB
  Mail,         \* messages of each mailbox
  Scoped,       \* candidate endpoints that need the organisation's id ...
  Plain,        \* ... and those that do not, in the order they are tried
  Shows,        \* Shows[e]: the users endpoint e lists
  Limit,        \* entries per page (100)
  SampleFirst,  \* how many users are sampled (25) ...
  SmallOrg,     \* ... unless the organisation has at most so many (30)
  CommandLines, \* the command lines to run with
  NotGiven,     \* the value of an option that is not given
  MaxChanges    \* bound: people who join or leave

Endpoints == ToSet(Scoped \o Plain)

ASSUME DirAssumption == Dir0 \in Seq(Users) /\ Nameless \subseteq Users /\ Mailless \subseteq Users
ASSUME SizesAssumption == Storage \in [Users -> Nat] /\ Mail \in [Users -> Nat]
ASSUME EndpointsAssumption ==
  Scoped \in Seq(Endpoints) /\ Plain \in Seq(Endpoints) /\ Shows \in [Endpoints -> SUBSET Users]
ASSUME LimitsAssumption == Limit \in Nat \ {0} /\ SampleFirst \in Nat /\ SmallOrg \in Nat
ASSUME OptionsAssumption == \A o \in CommandLines : o.pilot \in Nat
ASSUME ChangesAssumption == MaxChanges \in Nat

VARIABLES
  opts,       \* the command line
  dir,        \* the organisation's directory
  pc,
  stage,      \* which listing: for the "report", for the "pilot" cohort, to "select"
  eps,        \* endpoints_to_try, from the current one on
  start, collected,
  users,      \* what list_organization_users returned last
  assessed,   \* user_assessments
  total,      \* total_msgs
  shown,      \* the numbered table that run_discovery prints
  picks,      \* the index numbers entered, if any
  selected,   \* target_users
  active,     \* active_users, the users of the later stages
  owed,       \* history: who was there when the listing began, if nobody left since
  steady,     \* history: no request failed and nobody joined or left, so far
  changes

listing == <<eps, start, collected>>
choice == <<picks, selected, active>>
report == <<assessed, total, shown>>
vars == <<opts, dir, pc, stage, eps, start, collected, users, assessed, total, shown, picks,
          selected, active, owed, steady, changes>>

Terminal == {"done", "failed", "aborted"}
Stages == <<"provision", "calendar", "contacts", "mailbox", "done">>

TypeOK ==
  /\ opts \in CommandLines
  /\ dir \in Seq(Users) /\ collected \in Seq(Users) /\ users \in Seq(Users)
  /\ pc \in {"preflight", "connect", "org", "page", "assess", "select", "confirm"}
            \union ToSet(Stages) \union Terminal
  /\ stage \in {"report", "pilot", "select"}
  /\ eps \in Seq(Endpoints)
  /\ start \in Nat \ {0}
  /\ assessed \in Seq([msgs : Nat, sized : BOOLEAN])
  /\ total \in Nat
  /\ shown \in Seq(Users)
  /\ picks \subseteq Nat
  /\ selected \in Seq(Users) /\ active \in Seq(Users)
  /\ owed \subseteq Users
  /\ steady \in BOOLEAN
  /\ changes \in 0 .. MaxChanges

Init ==
  /\ opts \in CommandLines
  /\ dir = Dir0
  /\ pc = "preflight" /\ stage = "report"
  /\ eps = <<>> /\ start = 1 /\ collected = <<>> /\ users = <<>>
  /\ assessed = <<>> /\ total = 0 /\ shown = <<>>
  /\ picks = {} /\ selected = <<>> /\ active = <<>>
  /\ owed = {} /\ steady = TRUE /\ changes = 0

-----------------------------------------------------------------------------
(* The organisation, at any time *)

Change ==
  /\ pc \notin Terminal
  /\ changes < MaxChanges
  /\ changes' = changes + 1
  /\ steady' = FALSE
  /\ UNCHANGED <<opts, pc, stage, listing, users, report, choice>>

Join ==
  /\ Change
  /\ \E u \in Users \ ToSet(dir), i \in 1 .. Len(dir) + 1 : dir' = InsertAt(dir, i, u)
  /\ UNCHANGED owed

Leave ==
  /\ Change
  /\ \E i \in DOMAIN dir : dir' = RemoveAt(dir, i)
  /\ owed' = {}

-----------------------------------------------------------------------------
(* Pre-flight and connection *)

\* An error ends the run, in main's except; so does Ctrl-C, at any point.
Fail ==
  /\ pc \notin Terminal
  /\ pc' = "failed"
  /\ UNCHANGED <<opts, dir, stage, listing, users, report, choice, owed, steady, changes>>

Preflight ==
  /\ pc = "preflight"
  /\ pc' = "connect"
  /\ UNCHANGED <<opts, dir, stage, listing, users, report, choice, owed, steady, changes>>

\* test_connection: one of its two requests succeeds (Fail is when none does).
Connect ==
  /\ pc = "connect"
  /\ pc' = "org"
  /\ UNCHANGED <<opts, dir, stage, listing, users, report, choice, owed, steady, changes>>

-----------------------------------------------------------------------------
(* list_organization_users *)

\* get_organization_id: its two requests may fail, or tell nothing.
FindOrg ==
  /\ pc = "org"
  /\ pc' = "page"
  /\ \/ eps' = Scoped \o Plain /\ UNCHANGED steady
     \/ eps' = Plain /\ steady' = FALSE
  /\ start' = 1 /\ collected' = <<>>
  /\ owed' = ToSet(dir)
  /\ UNCHANGED <<opts, dir, stage, users, report, choice, changes>>

\* The entries of s that are in S, in the order of s
Kept(s, S) ==
  LET upTo[n \in 0 .. Len(s)] ==
        IF n = 0 THEN <<>>
        ELSE IF s[n] \in S THEN Append(upTo[n - 1], s[n]) ELSE upTo[n - 1]
  IN upTo[Len(s)]

PageAt(e, s) ==
  LET all == Kept(dir, Shows[e])
  IN SubSeq(all, s, Min({s + Limit - 1, Len(all)}))
Addressed(page) == Kept(page, Users \ Nameless)

\* Mutants: the users read before an error are kept; an endpoint is tried again.
KeptPartly == collected
SameEndpoint == eps

KeptOnError == <<>>
OtherEndpoints == Tail(eps)

\* The list is returned: to the assessment, to the agent, which goes on to the
\* menu, or to the choice of users.
Listed(us) ==
  /\ users' = us
  /\ CASE stage = "report" -> pc' = "assess" /\ UNCHANGED stage
       [] stage = "pilot" -> pc' = "org" /\ stage' = "select"
       [] stage = "select" -> pc' = "select" /\ UNCHANGED stage

NextEndpoint(kept) ==
  /\ eps' = OtherEndpoints /\ start' = 1 /\ collected' = kept
  /\ UNCHANGED <<pc, stage, users>>

Page ==
  /\ pc = "page" /\ eps # <<>>
  /\ LET page == PageAt(Head(eps), start)
         read == collected \o Addressed(page)
     IN \/ /\ Len(page) = Limit
           /\ start' = start + Limit /\ collected' = read
           /\ UNCHANGED <<eps, pc, stage, users>>
        \/ /\ Len(page) < Limit /\ read # <<>>
           /\ Listed(read)
           /\ UNCHANGED <<eps, start, collected>>
        \/ /\ Len(page) < Limit /\ read = <<>>
           /\ NextEndpoint(<<>>)
  /\ UNCHANGED <<opts, dir, report, choice, owed, steady, changes>>

\* ZohoClientError: the next candidate; any other exception is a Fail.
PageError ==
  /\ pc = "page" /\ eps # <<>>
  /\ NextEndpoint(KeptOnError)
  /\ steady' = FALSE
  /\ UNCHANGED <<opts, dir, report, choice, owed, changes>>

NoEndpointLeft ==
  /\ pc = "page" /\ eps = <<>>
  /\ Listed(<<>>)
  /\ UNCHANGED <<opts, dir, listing, report, choice, owed, steady, changes>>

-----------------------------------------------------------------------------
(* DiscoveryEngine.run_assessment *)

Sampled(i) ==
  (i <= SampleFirst \/ Len(users) <= SmallOrg) /\ users[i] \notin Mailless

\* The messages a sampled mailbox seems to have: what its folders say, what is
\* listed of three of them, or 0 when the requests failed.
FromFolders(u) == 0 .. Mail[u]

\* 100 KB a message
FromStorage(u) == Max({1, Storage[u] \div 100})

Note(n, sized) ==
  /\ assessed' = Append(assessed, [msgs |-> n, sized |-> sized])
  /\ total' = total + n

AssessUser ==
  /\ pc = "assess" /\ Len(assessed) < Len(users)
  /\ LET i == Len(assessed) + 1
         u == users[i]
     IN \/ /\ Sampled(i)
           /\ \E n \in FromFolders(u) : Note(n, n > 0 \/ Storage[u] > 0)
        \/ /\ ~Sampled(i) /\ Storage[u] > 0
           /\ Note(FromStorage(u), TRUE)
        \/ /\ ~Sampled(i) /\ Storage[u] = 0
           /\ Note(0, FALSE)
  /\ UNCHANGED <<opts, dir, pc, stage, listing, users, shown, choice, owed, steady, changes>>

MessagesOf(lines) ==
  LET upTo[n \in 0 .. Len(lines)] == IF n = 0 THEN 0 ELSE upTo[n - 1] + lines[n].msgs
  IN upTo[Len(lines)]

Unknown == {i \in DOMAIN assessed : assessed[i].msgs = 0 /\ ~assessed[i].sized}

\* Mutant: the average is added to the total once, after the loop.
AddedOnce(average) == average

Added(average) == Cardinality(Unknown) * average

\* Users with neither messages nor storage get the average of the others.
Extrapolate ==
  /\ pc = "assess" /\ Len(assessed) = Len(users)
  /\ LET known == Len(users) - Cardinality(Unknown)
         average == MessagesOf(assessed) \div known
     IN IF known > 0 /\ Unknown # {}
          THEN /\ assessed' = [i \in DOMAIN assessed |->
                                 IF i \in Unknown THEN [msgs |-> average, sized |-> TRUE]
                                                  ELSE assessed[i]]
               /\ total' = total + Added(average)
          ELSE UNCHANGED <<assessed, total>>
  /\ shown' = users
  /\ pc' = "org" /\ stage' = "pilot"
  /\ UNCHANGED <<opts, dir, listing, users, choice, owed, steady, changes>>

-----------------------------------------------------------------------------
(* select_target_users *)

Asked(names) == Kept(users, names)
First(n) == SubSeq(users, 1, Min({n, Len(users)}))
OrAll(us) == IF us = <<>> THEN users ELSE us

Select(us) ==
  /\ pc = "select"
  /\ pc' = "confirm"
  /\ selected' = us
  /\ UNCHANGED <<opts, dir, stage, listing, users, report, active, owed, steady, changes>>

FileHelps == opts.file # NotGiven /\ Asked(opts.file) # <<>>

\* --users, --users-file, --pilot and -y, the first that applies; nobody found by
\* --users means everybody.
SelectByFlags ==
  /\ CASE opts.users # NotGiven -> Select(OrAll(Asked(opts.users)))
       [] opts.users = NotGiven /\ FileHelps -> Select(Asked(opts.file))
       [] opts.users = NotGiven /\ ~FileHelps /\ opts.pilot > 0 -> Select(First(opts.pilot))
       [] OTHER -> (opts.yes \/ users = <<>>) /\ Select(users)
  /\ UNCHANGED picks

AtMenu == opts.users = NotGiven /\ ~FileHelps /\ opts.pilot = 0 /\ ~opts.yes /\ users # <<>>

\* Choices 1 to 4 of the menu
SelectByMenu ==
  /\ AtMenu
  /\ \/ Select(users) \/ Select(First(1)) \/ Select(First(5))
     \/ \E names \in SUBSET Users : Select(OrAll(Asked(names)))
  /\ UNCHANGED picks

\* Mutant: the numbers of the table taken as positions from 0.
FromZero(p) == p + 1

Position(p) == p

\* Choice 5: numbers of the table that discovery printed, in any order; those that
\* are too large are ignored.
SelectByNumber ==
  /\ AtMenu
  /\ picks' \in SUBSET (1 .. Len(shown))
  /\ LET valid == {Position(p) : p \in picks'}
         sorted == Kept([i \in DOMAIN users |-> i], valid)
     IN Select(OrAll([k \in DOMAIN sorted |-> users[sorted[k]]]))

\* A live run that is not auto-confirmed asks.
Confirm ==
  /\ pc = "confirm"
  /\ \/ pc' = Head(Stages)
     \/ ~opts.yes /\ ~opts.dry /\ pc' = "aborted"
  /\ UNCHANGED <<opts, dir, stage, listing, users, report, choice, owed, steady, changes>>

-----------------------------------------------------------------------------
(* The stages *)

NextStage == pc' = Stages[CHOOSE i \in 2 .. Len(Stages) : Stages[i - 1] = pc]

\* The users with an account go on, or all of them in a dry run.
Provision ==
  /\ pc = "provision"
  /\ NextStage
  /\ \E us \in SUBSET ToSet(selected) :
       /\ opts.dry => us = ToSet(selected)
       /\ active' = Kept(selected, us)
  /\ UNCHANGED <<opts, dir, stage, listing, users, report, picks, selected, owed, steady, changes>>

\* A stage runs over active, or is skipped; one that raises is a Fail.
RunStage ==
  /\ pc \in {"calendar", "contacts", "mailbox"}
  /\ NextStage
  /\ UNCHANGED <<opts, dir, stage, listing, users, report, choice, owed, steady, changes>>

Terminated == pc \in Terminal /\ UNCHANGED vars

\* What discovery does, and what the program does by itself
Discover ==
  \/ Preflight \/ Connect \/ FindOrg \/ Page \/ PageError \/ NoEndpointLeft
  \/ AssessUser \/ Extrapolate
Work == Discover \/ Provision \/ RunStage

Prompt == SelectByFlags \/ SelectByMenu \/ SelectByNumber \/ Confirm

Next == Join \/ Leave \/ Fail \/ Work \/ Prompt \/ Terminated

Spec == Init /\ [][Next]_vars

\* One thread, whose requests end; of a stage, which may wait for ever in a pause,
\* nothing is assumed.
FairSpec == Spec /\ WF_vars(Discover)

-----------------------------------------------------------------------------
(* Properties *)

\* A listing that found anybody is that of one endpoint, from its first page to its
\* last, whatever endpoints failed in the middle before it: it holds nobody that
\* endpoint does not show, and overlooks nobody who was there when it began, unless
\* somebody left meanwhile.
ListingWhole ==
  pc \in {"assess", "select"} /\ Len(users) > 0 =>
    /\ ToSet(users) \subseteq Shows[Head(eps)]
    /\ (owed \intersect Shows[Head(eps)]) \ Nameless \subseteq ToSet(users)

\* The total of the report is the sum of its lines, by whichever way each line got
\* its figure.
TotalsAgree == total = MessagesOf(assessed)

\* The numbers of the printed table mean, in the menu, the users they stood beside:
\* the run lists the organisation again in between, so this takes an organisation
\* that did not change and requests that did not fail.
NumbersMeanWhatWasShown ==
  pc \in {"confirm"} \union ToSet(Stages) /\ picks # {} /\ steady =>
    ToSet(selected) = {shown[p] : p \in picks}

\* Pre-flight, discovery and the listings come to an end: the run fails, asks which
\* users it shall take, or is in its stages, however the organisation grows while its
\* pages are turned and whichever endpoints fail.
DiscoveryEnds == []<>(pc \in Terminal \union {"select", "confirm"} \union ToSet(Stages))

\* "Comma-separated list of specific user emails/UPNs to migrate": with --users,
\* nobody else is migrated.
NobodyElse ==
  pc \in ToSet(Stages) /\ opts.users # NotGiven => ToSet(selected) \subseteq opts.users

\* "Select users by list index numbers (e.g., 1, 3, 5)" (workflow.py:122): the numbers
\* mean the users of the list that was printed, whatever happened since.
NumbersStillMean ==
  pc \in {"confirm"} \union ToSet(Stages) /\ picks # {} =>
    ToSet(selected) = {shown[p] : p \in picks}
=============================================================================
