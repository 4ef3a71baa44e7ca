-------------------------------- MODULE Session --------------------------------
(***************************************************************************)
(* security/vault.py, shared by the threads of the Web UI server, and the  *)
(* access tokens of ZohoAdminClient. The credentials form stores the keys  *)
(* one by one; a reset purges the vault and puts a new one in its place;   *)
(* every client reads the vault it was made with, whenever its cached      *)
(* token is about to expire. Time passes in requests and in sleeps only.   *)
(***************************************************************************)
EXTENDS Integers, Sequences

CONSTANTS
  Clients,
  Forms,        \* requests to /api/vault/store that may be under way together
  Orgs,         \* the organisations whose credentials are entered
  None, Garbled,
  MaxVaults,    \* bound: the vaults of a server, one for each reset and the first
  TTL,          \* ttl_seconds of a vault
  Life,         \* expires_in of a token
  Margin,       \* the 60 seconds of _get_access_token
  PostTime,     \* timeout of the request for a token
  Timeout,      \* timeout of one attempt of an API request
  Backoff,      \* the longest first sleep of retry_with_backoff; the next is twice that
  MaxRetries,
  MaxClock      \* bound: ticks

ASSUME TimesAssumption == {TTL, Life, PostTime, Timeout, Backoff, MaxClock, MaxVaults} \subseteq Nat
\* One attempt and one sleep fit in the margin: 30 s + 1.5 s < 60 s; the margin and the
\* request for a token in its life: 60 s + 15 s <= 3600 s.
ASSUME MarginAssumption ==
  /\ Margin \in Nat /\ Timeout + Backoff < Margin
  /\ Life \in Nat /\ Margin + PostTime <= Life
ASSUME RetriesAssumption == MaxRetries \in Nat \ {0} /\ MaxVaults > 0
Keys == 1 .. 3   \* zoho_client_id, zoho_client_secret, zoho_refresh_token, as they are stored
Vaults == 1 .. MaxVaults
Stored == Orgs \union {None, Garbled}
Tokens == [org : Orgs, until : Int, dead : Int]

ASSUME NoneAssumption == None \notin Orgs \union Tokens /\ Garbled \notin Orgs

VARIABLES
  clock,
  current,    \* MigrationUIHandler.vault
  cred,       \* cred[v][k]: whose credential it is
  phase,      \* how far the purge of each vault is
  born,       \* _created_at
  form,       \* each request to store: whose keys, and the key to store next
  reset,      \* where the request to reset is
  home,       \* the vault of each client
  token,      \* _access_token; until: _token_expires_at; dead: when Zoho ends it
  call        \* the request each client is making

vault == <<cred, phase, born>>
server == <<current, form, reset>>
vars == <<clock, current, cred, phase, born, form, reset, home, token, call>>

NoForm == [org |-> None, key |-> 1]
Empty == [k \in Keys |-> None]

\* at: where it is; now, got: the time and the credentials a refresh has read; tries:
\* attempt in retry_with_backoff; by: when the request or the sleep it waits for ends
\* at the latest; late (history): the vault was purged or too old when the refresh began.
NoCall == [at |-> "idle", now |-> 0, got |-> <<>>, tries |-> 0, by |-> 0,
           late |-> FALSE]
Calls ==
  [at : {"idle", "token", "read", "post", "send", "sent", "nap"}, now : 0 .. MaxClock,
   got : Seq(Orgs \union {None}), tries : 0 .. MaxRetries, by : Nat,
   late : BOOLEAN]

TypeOK ==
  /\ clock \in 0 .. MaxClock
  /\ current \in Vaults
  /\ cred \in [Vaults -> [Keys -> Stored]]
  /\ phase \in [Vaults -> {"open", "zeroed", "cleared", "purged"}]
  /\ born \in [Vaults -> 0 .. MaxClock]
  /\ form \in [Forms -> [org : Orgs \union {None}, key : Keys]]
  /\ reset \in {"no", "key", "clear", "flag", "new"}
  /\ home \in [Clients -> Vaults]
  /\ token \in [Clients -> Tokens \union {None}]
  /\ call \in [Clients -> Calls]

Init ==
  /\ clock = 0
  /\ current = 1
  /\ cred = [v \in Vaults |-> Empty]
  /\ phase = [v \in Vaults |-> "open"]
  /\ born = [v \in Vaults |-> 0]
  /\ form = [f \in Forms |-> NoForm]
  /\ reset = "no"
  /\ home = [c \in Clients |-> 1]
  /\ token = [c \in Clients |-> None]
  /\ call = [c \in Clients |-> NoCall]

\* Nothing is late: every request and every sleep that runs ends in time.
Tick ==
  /\ clock < MaxClock
  /\ \A c \in Clients : call[c].at # "idle" => clock < call[c].by
  /\ clock' = clock + 1
  /\ UNCHANGED <<server, vault, home, token, call>>

-----------------------------------------------------------------------------
(* EphemeralVault *)

\* Mutant: the age of a vault is not looked at.
Ageless(v) == FALSE

Expired(v) == clock - born[v] > TTL
Purged(v) == phase[v] = "purged"

\* _check_ttl, and for which v it raises: an old vault is purged by whoever uses it.
Refuses(v) == Purged(v) \/ Expired(v)
Checked(v) ==
  IF Expired(v) /\ ~Purged(v)
    THEN /\ phase' = [phase EXCEPT ![v] = "purged"]
         /\ cred' = [cred EXCEPT ![v] = Empty]
    ELSE UNCHANGED <<phase, cred>>

-----------------------------------------------------------------------------
(* The server *)

Submit(f) ==
  /\ form[f] = NoForm
  /\ \E o \in Orgs : form' = [form EXCEPT ![f] = [org |-> o, key |-> 1]]
  /\ UNCHANGED <<clock, current, reset, vault, home, token, call>>

After(r) == IF r.key = 3 THEN NoForm ELSE [r EXCEPT !.key = @ + 1]

\* self.vault.store, once for each key; an error ends the request.
StoreKey(f) ==
  /\ form[f] # NoForm
  /\ \/ /\ Refuses(current)
        /\ Checked(current)
        /\ form' = [form EXCEPT ![f] = NoForm]
     \/ /\ ~Refuses(current)
        /\ cred' = [cred EXCEPT ![current][form[f].key] = form[f].org]
        /\ form' = [form EXCEPT ![f] = After(@)]
        /\ UNCHANGED phase
  /\ UNCHANGED <<clock, current, born, reset, home, token, call>>

\* /api/status retrieves a credential.
Poll ==
  /\ Checked(current)
  /\ UNCHANGED <<clock, server, born, home, token, call>>

\* _handle_reset: the three steps of purge, which may meet that of an expiry, and the
\* new vault
Reset ==
  /\ reset = "no" /\ current < MaxVaults
  /\ reset' = IF Purged(current) THEN "new" ELSE "key"
  /\ UNCHANGED <<clock, current, form, vault, home, token, call>>

Purging(at, next, p, left) ==
  /\ reset = at
  /\ reset' = next
  /\ phase' = [phase EXCEPT ![current] = IF @ = "purged" THEN @ ELSE p]
  /\ cred' = [cred EXCEPT ![current] = [k \in Keys |-> left[@[k]]]]
  /\ UNCHANGED <<clock, current, form, born, home, token, call>>

Undecipherable == [s \in Stored |-> IF s = None THEN None ELSE Garbled]
PurgeKey == Purging("key", "clear", "zeroed", Undecipherable)
PurgeStore == Purging("clear", "flag", "cleared", [s \in Stored |-> None])
PurgeFlag == Purging("flag", "new", "purged", [s \in Stored |-> s])

Replace ==
  /\ reset = "new"
  /\ reset' = "no"
  /\ current' = current + 1
  /\ born' = [born EXCEPT ![current + 1] = clock]
  /\ UNCHANGED <<clock, form, cred, phase, home, token, call>>

-----------------------------------------------------------------------------
(* ZohoAdminClient *)

\* The call of c goes on from one point to the next, where it stays for so long.
Goes(c, to, ticks, was) ==
  call' = [call EXCEPT ![c] = IF to = "idle" THEN NoCall
                                             ELSE [was EXCEPT !.at = to, !.by = clock + ticks]]
Steps(c, from, to, ticks) == call[c].at = from /\ Goes(c, to, ticks, call[c])

\* The supervisor of a new request makes a client, for the vault of the moment.
NewClient(c) ==
  /\ call[c].at = "idle"
  /\ home' = [home EXCEPT ![c] = current]
  /\ token' = [token EXCEPT ![c] = None]
  /\ UNCHANGED <<clock, server, vault, call>>

\* _api_request, past the rate limiter
Call(c) ==
  /\ call[c].at = "idle"
  /\ Goes(c, "token", 0, [NoCall EXCEPT !.now = clock])
  /\ UNCHANGED <<clock, server, vault, home, token>>

\* Mutant: a token is used to its last second.
UsedUp(c) == token[c] # None /\ call[c].now < token[c].until

Fresh(c) == token[c] # None /\ call[c].now < token[c].until - Margin

UseToken(c) ==
  /\ Fresh(c)
  /\ Steps(c, "token", "send", 0)
  /\ UNCHANGED <<clock, server, vault, home, token>>

\* The history: the session is over, whatever the vault will say of it.
Over(v) == phase[v] = "purged" \/ clock - born[v] > TTL

BeginRefresh(c) ==
  /\ ~Fresh(c)
  /\ call[c].at = "token"
  /\ Goes(c, "read", 0, [call[c] EXCEPT !.late = Over(home[c])])
  /\ UNCHANGED <<clock, server, vault, home, token>>

\* vault.retrieve, three times; an error ends the call.
Read(c) ==
  LET v == home[c]
      k == Len(call[c].got) + 1
  IN /\ call[c].at = "read" /\ k \in Keys
     /\ IF Refuses(v) \/ cred[v][k] = Garbled
          THEN Goes(c, "idle", 0, NoCall)
          ELSE Goes(c, "read", 0, [call[c] EXCEPT !.got = Append(@, cred[v][k])])
     /\ Checked(v)
     /\ UNCHANGED <<clock, server, born, home, token>>

ReadAll(c) == Len(call[c].got) = 3
Complete(c) == \A k \in Keys : call[c].got[k] # None
Agree(c) == \A k \in Keys : call[c].got[k] = call[c].got[1]

\* A credential that is missing is noticed when all three have been asked for.
Missing(c) ==
  /\ ReadAll(c) /\ ~Complete(c)
  /\ Steps(c, "read", "idle", 0)
  /\ UNCHANGED <<clock, server, vault, home, token>>

Post(c) ==
  /\ ReadAll(c) /\ Complete(c)
  /\ Steps(c, "read", "post", PostTime)
  /\ UNCHANGED <<clock, server, vault, home, token>>

\* Zoho takes three credentials of one organisation. The client counts expires_in
\* from before the request.
Granted(c) ==
  /\ ReadAll(c) /\ Agree(c)
  /\ Steps(c, "post", "send", 0)
  /\ \E issued \in call[c].now .. clock :
       token' = [token EXCEPT ![c] = [org |-> call[c].got[1], until |-> call[c].now + Life,
                                      dead |-> issued + Life]]
  /\ UNCHANGED <<clock, server, vault, home>>

NotGranted(c) ==
  /\ Steps(c, "post", "idle", 0)
  /\ UNCHANGED <<clock, server, vault, home, token>>

\* One attempt. The header is made before the first and goes with all of them.
Send(c) ==
  /\ Steps(c, "send", "sent", Timeout)
  /\ UNCHANGED <<clock, server, vault, home, token>>

\* Zoho does what it is asked with a live token.
Answered(c) ==
  /\ Steps(c, "sent", "idle", 0)
  /\ call[c].by - Timeout < token[c].dead
  /\ UNCHANGED <<clock, server, vault, home, token>>

\* An exception that is not among retryable_exceptions: a body that is cut short.
Raises(c) ==
  /\ Steps(c, "sent", "idle", 0)
  /\ UNCHANGED <<clock, server, vault, home, token>>

\* Mutant: attempts are not counted.
SameTry(c) == call[c].tries

NextTry(c) == call[c].tries + 1

\* 400, 401, 403 and 404 raise a NonRetryableZohoError, which is a ZohoClientError and so
\* among retryable_exceptions: it is retried like any other.
Refused(c) ==
  /\ call[c].at = "sent"
  /\ Goes(c, IF NextTry(c) >= MaxRetries THEN "idle" ELSE "nap", NextTry(c) * Backoff,
          [call[c] EXCEPT !.tries = NextTry(c)])
  /\ UNCHANGED <<clock, server, vault, home, token>>

Wake(c) ==
  /\ Steps(c, "nap", "send", 0)
  /\ UNCHANGED <<clock, server, vault, home, token>>

Work(c) ==
  \/ UseToken(c) \/ BeginRefresh(c) \/ Read(c) \/ Missing(c) \/ Post(c) \/ Granted(c)
  \/ NotGranted(c) \/ Send(c) \/ Answered(c) \/ Raises(c) \/ Refused(c) \/ Wake(c)

Next ==
  \/ Tick
  \/ \E f \in Forms : Submit(f) \/ StoreKey(f)
  \/ Poll \/ Reset \/ PurgeKey \/ PurgeStore \/ PurgeFlag \/ Replace
  \/ \E c \in Clients : NewClient(c) \/ Call(c) \/ Work(c)

Spec == Init /\ [][Next]_vars

\* The thread of a client runs; its requests and its sleeps end.
FairSpec == Spec /\ \A c \in Clients : WF_vars(Work(c))

-----------------------------------------------------------------------------
(* Properties *)

\* The 60 seconds before the end of a token are enough for one retry: the first two
\* attempts of a request never carry a token that Zoho has ended. (A third may: two
\* timeouts and two sleeps are 64.5 seconds.)
FreshForTwoAttempts ==
  \A c \in Clients : call[c].at = "send" /\ call[c].tries <= 1 => clock < token[c].dead

\* After a reset, or ttl_seconds after it was made, a vault gives no run another token,
\* also when a form that was being stored goes on and nobody has noticed that the vault
\* is too old: a refresh that begins after the purge or the expiry never succeeds.
NoTokenAfterEnd ==
  [][\A c \in Clients : call[c].late /\ token'[c] # token[c] => token'[c] = None]_vars

\* Every request ends, with an answer or an error, whatever becomes of the vault.
CallsEnd == \A c \in Clients : call[c].at # "idle" ~> call[c].at = "idle"

\* A client goes on in the organisation it began in.
KeepsItsOrg ==
  [][\A c \in Clients : token[c] # None /\ token'[c] # None => token'[c].org = token[c].org]_vars

\* "On exit, shutdown, or 2-hour TTL expiration, all sensitive memory buffers are
\* explicitly zeroed out" (README.md:75), "automatic timeout" (vault.py:8): of a vault
\* that is older than its TTL, nothing is left to read, and no token made with it.
ZeroedOnTime ==
  /\ \A v \in Vaults : Expired(v) => \A k \in Keys : cred[v][k] \notin Orgs
  /\ \A c \in Clients : Expired(home[c]) => token[c] = None
=============================================================================
