----------------------------- MODULE SessionProofs -----------------------------
(***************************************************************************)
(* Proofs about Session, for any sets of clients, forms and organisations, *)
(* any number of resets, and all times that keep the assumptions; and, in  *)
(* the last part, about the runs that the same server starts.              *)
(***************************************************************************)
EXTENDS Session, TLAPS

-----------------------------------------------------------------------------
(* The types *)

\* The constants are natural numbers.
LEMMA Numbers ==
  /\ TTL \in Nat /\ Life \in Nat /\ Margin \in Nat /\ PostTime \in Nat /\ Timeout \in Nat
  /\ Backoff \in Nat /\ MaxClock \in Nat /\ MaxVaults \in Nat /\ MaxVaults > 0
  /\ MaxRetries \in Nat \ {0}
BY TimesAssumption, MarginAssumption, RetriesAssumption

\* The length of a sleep is a number of ticks.
LEMMA Product ==
  ASSUME NEW m \in Nat, NEW n \in Nat
  PROVE  m * n \in Nat
OBVIOUS

\* A token that was asked for in time is good for more than the margin when it comes.
LEMMA GoodAtFirst ==
  ASSUME NEW asked \in Nat, NEW issued \in Int, NEW now \in Nat,
         asked <= issued, now <= asked + PostTime
  PROVE  now + Margin <= issued + Life
BY Numbers, MarginAssumption

\* What a client does with its call keeps the type of the call.
LEMMA GoesTyped ==
  ASSUME TypeOK, NEW c \in Clients, NEW to, NEW ticks \in Nat, NEW was \in Calls,
         to \in {"idle", "token", "read", "post", "send", "sent", "nap"}, Goes(c, to, ticks, was)
  PROVE  call' \in [Clients -> Calls]
<1>1. NoCall \in Calls
  BY Numbers DEF NoCall, Calls, TypeOK
<1>2. clock + ticks \in Nat
  BY Numbers DEF TypeOK
<1>3. [was EXCEPT !.at = to, !.by = clock + ticks] \in Calls
  BY <1>2 DEF Calls
<1> QED
  BY <1>1, <1>3 DEF Goes, TypeOK

\* Whoever uses a vault, it keeps its type.
LEMMA CheckedTyped ==
  ASSUME TypeOK, NEW v \in Vaults, Checked(v)
  PROVE  /\ cred' \in [Vaults -> [Keys -> Stored]]
         /\ phase' \in [Vaults -> {"open", "zeroed", "cleared", "purged"}]
<1>1. Empty \in [Keys -> Stored]
  BY DEF Empty, Stored
<1>2. [cred EXCEPT ![v] = Empty] \in [Vaults -> [Keys -> Stored]]
  BY <1>1 DEF TypeOK
<1> QED
  BY <1>2 DEF TypeOK, Checked

\* A reset that is under way has a vault left to make.
VaultLeft == reset # "no" => current < MaxVaults

\* The requests to the server, and the clock, keep the types.
LEMMA ServerTyped ==
  ASSUME TypeOK, VaultLeft,
         \/ Tick \/ Poll \/ Reset \/ PurgeKey \/ PurgeStore \/ PurgeFlag \/ Replace
         \/ \E f \in Forms : Submit(f) \/ StoreKey(f)
  PROVE  TypeOK' /\ VaultLeft'
<1> USE DEF VaultLeft
<1>1. CASE Tick
  BY <1>1, Numbers DEF TypeOK, Tick, server, vault
<1>2. CASE Poll
  BY <1>2, CheckedTyped DEF TypeOK, Poll, server
<1>3. CASE Reset
  BY <1>3 DEF TypeOK, Reset, vault
<1>4. ASSUME NEW at, NEW next \in {"no", "key", "clear", "flag", "new"},
             NEW p \in {"zeroed", "cleared", "purged"}, NEW left \in [Stored -> Stored],
             Purging(at, next, p, left), at # "no"
      PROVE  TypeOK' /\ VaultLeft'
  BY <1>4 DEF TypeOK, Purging
<1>5. Undecipherable \in [Stored -> Stored] /\ [s \in Stored |-> None] \in [Stored -> Stored]
      /\ [s \in Stored |-> s] \in [Stored -> Stored]
  BY DEF Undecipherable, Stored
<1>6. CASE PurgeKey \/ PurgeStore \/ PurgeFlag
  BY <1>4, <1>5, <1>6 DEF PurgeKey, PurgeStore, PurgeFlag
<1>7. CASE Replace
  <2>1. current + 1 \in Vaults
    BY <1>7, Numbers DEF TypeOK, Replace, Vaults
  <2> QED
    BY <1>7, <2>1 DEF TypeOK, Replace
<1>8. ASSUME NEW f \in Forms, Submit(f) PROVE TypeOK' /\ VaultLeft'
  BY <1>8 DEF TypeOK, Submit, vault, Keys
<1>9. ASSUME NEW f \in Forms, StoreKey(f) PROVE TypeOK' /\ VaultLeft'
  <2>1. CASE Refuses(current)
    <3>1. /\ Checked(current) /\ form' = [form EXCEPT ![f] = NoForm]
          /\ UNCHANGED <<clock, current, born, reset, home, token, call>>
      BY <1>9, <2>1 DEF StoreKey
    <3>2. NoForm \in [org : Orgs \union {None}, key : Keys]
      BY DEF NoForm, Keys
    <3>3. form' \in [Forms -> [org : Orgs \union {None}, key : Keys]]
      BY <3>1, <3>2 DEF TypeOK
    <3> QED
      BY <3>1, <3>3, CheckedTyped DEF TypeOK
  <2>2. CASE ~Refuses(current)
    <3> DEFINE r == form[f]
               next == After(r)
               FormSet == [org : Orgs \union {None}, key : Keys]
    <3>1. r \in FormSet /\ form \in [Forms -> FormSet]
      BY DEF TypeOK
    <3>2. next \in FormSet
      BY <3>1 DEF After, NoForm, Keys
    <3>3. form' = [form EXCEPT ![f] = next]
      BY <1>9, <2>2 DEF StoreKey
    <3>4. form' \in [Forms -> FormSet]
      <4> HIDE DEF next, FormSet
      <4> QED
        BY <3>1, <3>2, <3>3
    <3>5. [cred[current] EXCEPT ![r.key] = r.org] \in [Keys -> Stored]
      BY <3>1 DEF TypeOK, Stored
    <3>6. cred' \in [Vaults -> [Keys -> Stored]]
      BY <1>9, <2>2, <3>5 DEF TypeOK, StoreKey
    <3> QED
      BY <1>9, <2>2, <3>4, <3>6 DEF TypeOK, StoreKey
  <2> QED
    BY <2>1, <2>2
<1> QED
  BY <1>1, <1>2, <1>3, <1>6, <1>7, <1>8, <1>9

\* The steps of a client keep the types; it posts no credential that is missing.
LEMMA ClientTyped ==
  ASSUME TypeOK, NEW c \in Clients, NewClient(c) \/ Call(c) \/ Work(c),
         call[c].at = "post" => call[c].got[1] # None
  PROVE  TypeOK'
<1> DEFINE w == call[c]
<1>1. w \in Calls /\ NoCall \in Calls /\ clock \in 0 .. MaxClock
  BY Numbers DEF TypeOK, NoCall, Calls
<1>2. CASE NewClient(c)
  BY <1>2 DEF TypeOK, NewClient, server, vault
<1>3. CASE Call(c)
  <2>1. [NoCall EXCEPT !.now = clock] \in Calls
    BY <1>1 DEF Calls
  <2>2. call' \in [Clients -> Calls]
    BY <1>3, <2>1, GoesTyped DEF Call
  <2> QED
    BY <1>3, <2>2 DEF TypeOK, Call, server, vault
<1>4. ASSUME NEW from, NEW to \in {"idle", "token", "read", "post", "send", "sent", "nap"},
             NEW ticks \in Nat, Steps(c, from, to, ticks)
      PROVE  call' \in [Clients -> Calls]
  BY <1>1, <1>4, GoesTyped DEF Steps
<1>5. CASE UseToken(c) \/ Missing(c) \/ Post(c) \/ NotGranted(c) \/ Send(c) \/ Answered(c) \/ Raises(c) \/ Wake(c)
  <2>1. call' \in [Clients -> Calls]
    BY <1>4, <1>5, Numbers DEF UseToken, Missing, Post, NotGranted, Send, Answered, Raises, Wake
  <2>2. UNCHANGED <<clock, server, vault, home, token>>
    BY <1>5 DEF UseToken, Missing, Post, NotGranted, Send, Answered, Raises, Wake
  <2> QED
    BY <2>1, <2>2 DEF TypeOK, server, vault
<1>6. CASE BeginRefresh(c)
  <2>1. [w EXCEPT !.late = Over(home[c])] \in Calls
    BY <1>1 DEF Calls, Over
  <2>2. call' \in [Clients -> Calls]
    BY <1>6, <2>1, GoesTyped DEF BeginRefresh
  <2> QED
    BY <1>6, <2>2 DEF TypeOK, BeginRefresh, server, vault
<1>7. CASE Read(c)
  <2> DEFINE v == home[c]
             k == Len(w.got) + 1
  <2>1. v \in Vaults /\ k \in Keys
    BY <1>7 DEF TypeOK, Read
  <2>2. cred[v][k] # Garbled => cred[v][k] \in Orgs \union {None}
    BY <2>1 DEF TypeOK, Stored
  <2>3. ASSUME cred[v][k] # Garbled
        PROVE  [w EXCEPT !.got = Append(w.got, cred[v][k])] \in Calls
    <3>1. Append(w.got, cred[v][k]) \in Seq(Orgs \union {None})
      BY <1>1, <2>2, <2>3 DEF Calls
    <3> QED
      BY <1>1, <3>1 DEF Calls
  <2>4. call' \in [Clients -> Calls]
    <3>1. CASE Refuses(v) \/ cred[v][k] = Garbled
      BY <1>1, <1>7, <3>1, GoesTyped DEF Read
    <3>2. CASE ~(Refuses(v) \/ cred[v][k] = Garbled)
      <4>1. Goes(c, "read", 0, [w EXCEPT !.got = Append(w.got, cred[v][k])])
        BY <1>7, <3>2 DEF Read
      <4> QED
        BY <2>3, <3>2, <4>1, GoesTyped
    <3> QED
      BY <3>1, <3>2
  <2>5. Checked(v) /\ UNCHANGED <<clock, current, born, form, reset, home, token>>
    BY <1>7 DEF Read, server
  <2> QED
    BY <2>1, <2>4, <2>5, CheckedTyped DEF TypeOK
<1>8. CASE Granted(c)
  <2>1. call' \in [Clients -> Calls]
    BY <1>4, <1>8 DEF Granted
  <2>2. w.got[1] \in Orgs
    BY <1>1, <1>8 DEF Granted, Steps, ReadAll, Calls
  <2>3. PICK issued \in w.now .. clock :
          token' = [token EXCEPT ![c] = [org |-> w.got[1], until |-> w.now + Life,
                                         dead |-> issued + Life]]
    BY <1>8 DEF Granted
  <2>4. w.now \in Nat /\ issued \in Int
    BY <1>1, <2>3, Numbers DEF Calls
  <2>5. [org |-> w.got[1], until |-> w.now + Life, dead |-> issued + Life] \in Tokens
    BY <2>2, <2>4, Numbers DEF Tokens
  <2>6. token' \in [Clients -> Tokens \union {None}]
    BY <2>3, <2>5 DEF TypeOK
  <2> QED
    BY <1>8, <2>1, <2>6 DEF TypeOK, Granted, server, vault
<1>9. CASE Refused(c)
  <2>1. CASE NextTry(c) >= MaxRetries
    <3>1. call' = [call EXCEPT ![c] = NoCall]
      BY <1>9, <2>1 DEF Refused, Goes
    <3> QED
      BY <1>1, <1>9, <3>1 DEF TypeOK, Refused, server, vault
  <2>2. CASE ~(NextTry(c) >= MaxRetries)
    <3>1. NextTry(c) \in 0 .. MaxRetries /\ NextTry(c) * Backoff \in Nat
      <4>1. w.tries \in 0 .. MaxRetries
        BY <1>1 DEF Calls
      <4>2. NextTry(c) \in 0 .. MaxRetries /\ NextTry(c) \in Nat
        BY <2>2, <4>1, Numbers DEF NextTry
      <4> QED
        BY <4>2, Numbers, Product
    <3>2. [w EXCEPT !.tries = NextTry(c)] \in Calls
      BY <1>1, <3>1 DEF Calls
    <3>3. call' \in [Clients -> Calls]
      BY <1>9, <2>2, <3>1, <3>2, GoesTyped DEF Refused
    <3> QED
      BY <1>9, <3>3 DEF TypeOK, Refused, server, vault
  <2> QED
    BY <2>1, <2>2
<1> QED
  BY <1>2, <1>3, <1>5, <1>6, <1>7, <1>8, <1>9 DEF Work

-----------------------------------------------------------------------------
(* The invariant *)

\* A client never holds a vault that is still to be made.
Behind == \A c \in Clients : home[c] <= current

\* A token ends no earlier than its client believes.
Covered(c) == token[c] # None => token[c].until <= token[c].dead

\* Before a request for a token no time passes, and a refresh that began after the
\* purge or the expiry reads nothing.
Refreshing(c) ==
  LET w == call[c]
  IN /\ w.at \in {"token", "read"} => w.now = clock /\ w.by = clock
     /\ w.at = "token" => Len(w.got) = 0
     /\ w.at \in {"token", "read", "post"} => w.tries = 0
     /\ w.at = "post" => /\ w.got[1] # None
                         /\ w.now <= clock /\ clock <= w.by /\ w.by = w.now + PostTime
     /\ w.late => /\ w.at = "read" /\ Len(w.got) = 0
                  /\ phase[home[c]] = "purged" \/ clock - born[home[c]] > TTL

\* How much of the margin each attempt and each sleep has left.
Attempting(c) ==
  LET w == call[c]
      t == token[c]
  IN /\ w.at \in {"send", "sent", "nap"} => t # None /\ clock <= w.by
     /\ w.at = "send" => w.by = clock
     /\ w.at = "send" /\ w.tries = 0 => clock + Margin <= t.dead
     /\ w.at = "sent" /\ w.tries = 0 => w.by + Margin <= t.dead + Timeout
     /\ w.at = "nap" => w.tries > 0
     /\ w.at = "nap" /\ w.tries = 1 => w.by + Margin <= t.dead + Timeout + Backoff
     /\ w.at = "send" /\ w.tries = 1 => clock + Margin <= t.dead + Timeout + Backoff

ClientInv(c) == Covered(c) /\ Refreshing(c) /\ Attempting(c)

IInv == TypeOK /\ VaultLeft /\ Behind /\ \A c \in Clients : ClientInv(c)

\* The server leaves the clients what they rely on: a vault keeps its age, and a
\* purge is for ever.
LEMMA ServerSteps ==
  ASSUME IInv,
         \/ Poll \/ Reset \/ PurgeKey \/ PurgeStore \/ PurgeFlag \/ Replace
         \/ \E f \in Forms : Submit(f) \/ StoreKey(f)
  PROVE  IInv'
<1>1. TypeOK' /\ VaultLeft'
  BY ServerTyped DEF IInv
<1>2. UNCHANGED <<clock, home, token, call>>
  BY DEF Poll, Reset, PurgeKey, PurgeStore, PurgeFlag, Purging, Replace, Submit, StoreKey
<1>3. \A v \in Vaults : v <= current => born'[v] = born[v]
  <2>1. CASE Replace
    BY <2>1 DEF IInv, TypeOK, Vaults, Replace
  <2>2. CASE ~Replace
    BY <2>2 DEF Poll, Reset, PurgeKey, PurgeStore, PurgeFlag, Purging, Submit, StoreKey, vault, server
  <2> QED
    BY <2>1, <2>2
<1>4. current <= current'
  <2>1. current \in Int
    BY DEF IInv, TypeOK, Vaults
  <2>2. current' = current \/ current' = current + 1
    BY DEF Poll, Reset, PurgeKey, PurgeStore, PurgeFlag, Purging, Replace, Submit, StoreKey, server
  <2> QED
    BY <2>1, <2>2
<1>5. \A v \in Vaults : phase[v] = "purged" => phase'[v] = "purged"
  <2>1. phase \in [Vaults -> {"open", "zeroed", "cleared", "purged"}]
    BY DEF IInv, TypeOK
  <2>2. CASE Reset \/ Replace \/ \E f \in Forms : Submit(f)
    BY <2>2 DEF Reset, Replace, Submit, vault
  <2>3. CASE Poll \/ \E f \in Forms : StoreKey(f)
    BY <2>1, <2>3 DEF Poll, StoreKey, Checked
  <2>4. CASE PurgeKey \/ PurgeStore \/ PurgeFlag
    BY <2>1, <2>4 DEF PurgeKey, PurgeStore, PurgeFlag, Purging
  <2> QED
    BY <2>2, <2>3, <2>4
<1>6. Behind'
  <2> SUFFICES ASSUME NEW c \in Clients PROVE home'[c] <= current'
    BY DEF Behind
  <2>1. home[c] \in Int /\ current \in Int /\ current' \in Int
    BY <1>1 DEF IInv, TypeOK, Vaults
  <2>2. home[c] <= current
    BY DEF IInv, Behind
  <2> QED
    BY <1>2, <1>4, <2>1, <2>2
<1>7. ASSUME NEW c \in Clients PROVE ClientInv(c)'
  <2>1. home[c] \in Vaults /\ home'[c] = home[c] /\ born'[home[c]] = born[home[c]]
        /\ (phase[home[c]] = "purged" => phase'[home[c]] = "purged")
    BY <1>2, <1>3, <1>5 DEF IInv, TypeOK, Behind
  <2> QED
    BY <1>2, <2>1 DEF IInv, ClientInv, Covered, Refreshing, Attempting
<1> QED
  BY <1>1, <1>6, <1>7 DEF IInv

\* Time passes for a client up to the end of its request or sleep.
LEMMA TickStep ==
  ASSUME IInv, Tick
  PROVE  IInv'
<1>1. TypeOK' /\ VaultLeft'
  BY ServerTyped DEF IInv
<1>2. Behind'
  BY DEF IInv, Behind, Tick, server
<1>3. ASSUME NEW c \in Clients PROVE ClientInv(c)'
  <2>1. call[c] \in Calls /\ clock \in Nat
    BY Numbers DEF IInv, TypeOK
  <2>2. call[c].at # "idle" => clock + 1 <= call[c].by
    BY <2>1 DEF Tick, Calls
  <2>3. call[c].at \notin {"token", "read", "send"}
    BY <2>1, <2>2 DEF IInv, ClientInv, Refreshing, Attempting, Calls
  <2>4. clock' = clock + 1 /\ UNCHANGED <<born, phase, home, token, call>>
    BY DEF Tick, vault
  <2>5. Covered(c)'
    BY <2>4 DEF IInv, ClientInv, Covered
  <2>6. Refreshing(c)'
    BY <2>1, <2>2, <2>3, <2>4 DEF IInv, ClientInv, Refreshing, Calls
  <2>7. Attempting(c)'
    BY <2>1, <2>2, <2>3, <2>4 DEF IInv, ClientInv, Attempting, Calls
  <2> QED
    BY <2>5, <2>6, <2>7 DEF ClientInv
<1> QED
  BY <1>1, <1>2, <1>3 DEF IInv

\* A step of one client is none of another's.
LEMMA OthersUntouched ==
  ASSUME IInv, NEW c \in Clients, NEW d \in Clients, d # c, NewClient(c) \/ Call(c) \/ Work(c)
  PROVE  ClientInv(d)'
<1>1. clock' = clock /\ born' = born /\ current' = current
  BY DEF NewClient, Call, Work, UseToken, BeginRefresh, Read, Missing, Post, Granted, NotGranted, Send,
    Answered, Raises, Refused, Wake, server, vault
<1>2. home'[d] = home[d] /\ token'[d] = token[d] /\ call'[d] = call[d]
  BY DEF IInv, TypeOK, NewClient, Call, Work, UseToken, BeginRefresh, Read, Missing, Post, Granted,
    NotGranted, Send, Answered, Raises, Refused, Wake, Steps, Goes
<1>3. phase[home[d]] = "purged" => phase'[home[d]] = "purged"
  BY DEF IInv, TypeOK, NewClient, Call, Work, UseToken, BeginRefresh, Read, Missing, Post, Granted,
    NotGranted, Send, Answered, Raises, Refused, Wake, Checked, vault
<1> QED
  BY <1>1, <1>2, <1>3 DEF IInv, ClientInv, Covered, Refreshing, Attempting

\* A client whose call has ended owes nothing.
LEMMA IdleInv ==
  ASSUME NEW c \in Clients, Covered(c)', call'[c] = NoCall
  PROVE  ClientInv(c)'
BY DEF ClientInv, Refreshing, Attempting, NoCall

\* Each step of a call keeps the invariant of its client.
LEMMA OwnStep ==
  ASSUME IInv, NEW c \in Clients, NewClient(c) \/ Call(c) \/ Work(c), TypeOK'
  PROVE  ClientInv(c)'
<1> DEFINE w == call[c]
<1>1. w \in Calls /\ clock \in Nat /\ born[home[c]] \in Nat
      /\ (token[c] # None => token[c] \in Tokens /\ token[c].dead \in Int)
  BY Numbers DEF IInv, TypeOK, Tokens
<1>2. Covered(c) /\ Refreshing(c) /\ Attempting(c)
  BY DEF IInv, ClientInv
<1>3. CASE NewClient(c)
  <2>1. token'[c] = None /\ call'[c].at = "idle" /\ ~call'[c].late
    BY <1>2, <1>3 DEF IInv, TypeOK, NewClient, Refreshing
  <2> QED
    BY <2>1 DEF ClientInv, Covered, Refreshing, Attempting
<1>4. ASSUME UNCHANGED <<born, home, token>> PROVE Covered(c)'
  BY <1>2, <1>4 DEF Covered
<1>5. ASSUME NEW to, NEW ticks, NEW was \in Calls, Goes(c, to, ticks, was)
      PROVE  call'[c] = IF to = "idle" THEN NoCall ELSE [was EXCEPT !.at = to, !.by = clock + ticks]
  BY <1>5 DEF IInv, TypeOK, Goes
<1>6. CASE Missing(c) \/ NotGranted(c) \/ Answered(c) \/ Raises(c)
  <2>1. call'[c] = NoCall
    BY <1>1, <1>5, <1>6 DEF Missing, NotGranted, Answered, Raises, Steps
  <2> QED
    BY <1>4, <1>6, <2>1, IdleInv DEF Missing, NotGranted, Answered, Raises, vault
<1>7. CASE Call(c)
  <2>1. call'[c] = [NoCall EXCEPT !.now = clock, !.at = "token", !.by = clock + 0]
    BY <1>7 DEF IInv, TypeOK, Call, Goes
  <2> QED
    BY <1>1, <1>4, <1>7, <2>1 DEF Call, ClientInv, Refreshing, Attempting, NoCall, vault
<1>8. CASE UseToken(c)
  <2>1. call'[c] = [w EXCEPT !.at = "send", !.by = clock + 0]
    BY <1>1, <1>5, <1>8 DEF UseToken, Steps
  <2>2. clock + Margin <= token[c].dead /\ token[c] # None
    BY <1>1, <1>2, <1>8, Numbers DEF UseToken, Fresh, Covered, Refreshing, Steps, Tokens, Calls
  <2>3. w.at = "token" /\ UNCHANGED <<clock, born, home, token>>
    BY <1>8 DEF UseToken, Steps, vault
  <2> QED
    BY <1>1, <1>2, <1>4, <2>1, <2>2, <2>3 DEF ClientInv, Refreshing, Attempting, Calls
<1>9. CASE BeginRefresh(c)
  <2> DEFINE was == [w EXCEPT !.late = Over(home[c])]
  <2>1. was \in Calls
    BY <1>1 DEF Calls, Over
  <2>2. call'[c] = [was EXCEPT !.at = "read", !.by = clock + 0]
    <3>1. Goes(c, "read", 0, was)
      BY <1>9 DEF BeginRefresh
    <3> HIDE DEF was
    <3> QED
      BY <1>5, <2>1, <3>1
  <2>3. w.at = "token" /\ UNCHANGED <<clock, born, phase, home, token>>
    BY <1>9 DEF BeginRefresh, vault
  <2>4. was.late => phase[home[c]] = "purged" \/ clock - born[home[c]] > TTL
    BY <1>1 DEF Over, Calls
  <2>5. was.at = w.at /\ was.got = w.got /\ was.tries = w.tries /\ was.now = w.now
    BY <1>1 DEF Calls
  <2> HIDE DEF was
  <2> QED
    BY <1>1, <1>2, <1>4, <2>1, <2>2, <2>3, <2>4, <2>5 DEF ClientInv, Refreshing, Attempting, Calls
<1>10. CASE Read(c)
  <2> DEFINE v == home[c]
             k == Len(w.got) + 1
             was == [w EXCEPT !.got = Append(w.got, cred[v][k])]
  <2>1. UNCHANGED <<clock, born, home, token>> /\ w.at = "read"
    BY <1>10 DEF Read
  <2>2. CASE Refuses(v) \/ cred[v][k] = Garbled
    <3>1. call'[c] = NoCall
      BY <1>10, <2>2 DEF IInv, TypeOK, Read, Goes
    <3> QED
      BY <1>4, <2>1, <3>1, IdleInv
  <2>3. CASE ~(Refuses(v) \/ cred[v][k] = Garbled)
    <3>1. call'[c] = [was EXCEPT !.at = "read", !.by = clock + 0]
      BY <1>10, <2>3 DEF IInv, TypeOK, Read, Goes
    <3>2. ~(clock - born[v] > TTL) /\ phase[v] # "purged"
      BY <2>3 DEF Refuses, Expired, Purged
    <3> QED
      BY <1>1, <1>2, <1>4, <2>1, <3>1, <3>2 DEF ClientInv, Refreshing, Attempting, Calls
  <2> QED
    BY <2>2, <2>3
<1>11. CASE Post(c)
  <2>1. call'[c] = [w EXCEPT !.at = "post", !.by = clock + PostTime]
    BY <1>1, <1>5, <1>11 DEF Post, Steps
  <2>2. w.at = "read" /\ Len(w.got) = 3 /\ w.got[1] # None /\ UNCHANGED <<clock, born, home, token>>
    BY <1>11 DEF Post, Steps, ReadAll, Complete, Keys, vault
  <2> QED
    BY <1>1, <1>2, <1>4, <2>1, <2>2, Numbers DEF ClientInv, Refreshing, Attempting, Calls
<1>12. CASE Granted(c)
  <2>1. call'[c] = [w EXCEPT !.at = "send", !.by = clock + 0]
    BY <1>1, <1>5, <1>12 DEF Granted, Steps
  <2>2. w.at = "post" /\ UNCHANGED <<clock, born, home>>
    BY <1>12 DEF Granted, Steps, vault
  <2>3. PICK issued \in w.now .. clock :
          token' = [token EXCEPT ![c] = [org |-> w.got[1], until |-> w.now + Life,
                                         dead |-> issued + Life]]
    BY <1>12 DEF Granted
  <2>4. w.now \in Nat /\ issued \in Int /\ w.now <= issued /\ issued <= clock
    BY <1>1, <2>3, Numbers DEF Calls
  <2>5. token'[c].until = w.now + Life /\ token'[c].dead = issued + Life /\ token'[c] # None
    <3>1. w.got[1] \in Orgs
      BY <1>1, <1>2, <2>2, <1>12 DEF Granted, ReadAll, Refreshing, Calls
    <3>2. [org |-> w.got[1], until |-> w.now + Life, dead |-> issued + Life] \in Tokens
      BY <2>4, <3>1, Numbers DEF Tokens
    <3> QED
      BY <2>3, <3>2, NoneAssumption DEF IInv, TypeOK
  <2>6. Covered(c)'
    <3>1. w.now + Life <= issued + Life
      BY <2>4, Numbers
    <3> QED
      BY <2>5, <3>1 DEF Covered
  <2>7. clock + Margin <= token'[c].dead
    <3>1. clock <= w.now + PostTime
      BY <1>2, <2>2 DEF Refreshing
    <3>2. clock + Margin <= issued + Life
      BY <1>1, <2>4, <3>1, GoodAtFirst
    <3> QED
      BY <2>5, <3>2
  <2> QED
    BY <1>1, <1>2, <2>1, <2>2, <2>5, <2>6, <2>7 DEF ClientInv, Refreshing, Attempting, Calls
<1>13. CASE Send(c)
  <2>1. call'[c] = [w EXCEPT !.at = "sent", !.by = clock + Timeout]
    BY <1>1, <1>5, <1>13 DEF Send, Steps
  <2>2. w.at = "send" /\ UNCHANGED <<clock, born, home, token>>
    BY <1>13 DEF Send, Steps, vault
  <2>3. /\ call'[c].at = "sent" /\ call'[c].by = clock + Timeout
        /\ call'[c].tries = w.tries /\ call'[c].late = w.late
    BY <1>1, <2>1 DEF Calls
  <2>4. Refreshing(c)'
    BY <1>2, <2>2, <2>3 DEF Refreshing
  <2>5. token[c] # None /\ token[c].dead \in Int /\ (w.tries = 0 => clock + Margin <= token[c].dead)
    BY <1>1, <1>2, <2>2 DEF Attempting
  <2>6. Attempting(c)'
    <3>1. clock <= clock + Timeout
      BY <1>1, Numbers
    <3>2. w.tries = 0 => (clock + Timeout) + Margin <= token[c].dead + Timeout
      BY <1>1, <2>5, Numbers
    <3> QED
      BY <2>2, <2>3, <2>5, <3>1, <3>2 DEF Attempting
  <2> QED
    BY <1>4, <2>2, <2>4, <2>6 DEF ClientInv
<1>14. CASE Refused(c)
  <2>1. w.at = "sent" /\ UNCHANGED <<clock, born, home, token>>
    BY <1>14 DEF Refused, vault
  <2>2. CASE NextTry(c) >= MaxRetries
    <3>1. call'[c] = NoCall
      BY <1>14, <2>2 DEF IInv, TypeOK, Refused, Goes
    <3> QED
      BY <1>4, <2>1, <3>1, IdleInv
  <2>3. CASE ~(NextTry(c) >= MaxRetries)
    <3>1. call'[c] = [w EXCEPT !.tries = w.tries + 1, !.at = "nap",
                               !.by = clock + (w.tries + 1) * Backoff]
      BY <1>14, <2>3 DEF IInv, TypeOK, Refused, Goes, NextTry
    <3>2. (w.tries + 1) * Backoff \in Nat /\ (w.tries = 0 => (w.tries + 1) * Backoff = Backoff)
      BY <1>1, Numbers DEF Calls
    <3>3. w.by \in Nat /\ w.tries \in Nat /\ clock <= w.by /\ token[c] # None /\ token[c].dead \in Int
      BY <1>1, <1>2, <2>1 DEF Attempting, Calls
    <3>4. w.tries = 0 => clock + Backoff + Margin <= token[c].dead + Timeout + Backoff
      BY <1>1, <1>2, <2>1, <3>3, Numbers DEF Attempting
    <3>5. Refreshing(c)'
      BY <1>2, <2>1, <3>1, <3>3 DEF Refreshing
    <3>6. Attempting(c)'
      <4>1. PICK nap \in Nat : /\ call'[c].by = clock + nap
                               /\ w.tries = 0 => nap = Backoff
        BY <3>1, <3>2 DEF Calls
      <4>2. call'[c].at = "nap" /\ call'[c].tries = w.tries + 1
        BY <1>1, <3>1 DEF Calls
      <4> QED
        BY <1>1, <2>1, <3>3, <3>4, <4>1, <4>2, Numbers DEF Attempting
    <3> QED
      BY <1>4, <2>1, <3>5, <3>6 DEF ClientInv
  <2> QED
    BY <2>2, <2>3
<1>15. CASE Wake(c)
  <2>1. call'[c] = [w EXCEPT !.at = "send", !.by = clock + 0]
    BY <1>1, <1>5, <1>15 DEF Wake, Steps
  <2>2. w.at = "nap" /\ UNCHANGED <<clock, born, home, token>>
    BY <1>15 DEF Wake, Steps, vault
  <2> QED
    <3>1. w.by \in Nat /\ w.tries \in Nat /\ clock <= w.by /\ token[c] # None /\ token[c].dead \in Int
      BY <1>1, <1>2, <2>2 DEF Attempting, Calls
    <3>2. w.tries > 0 /\ (w.tries = 1 => clock + Margin <= token[c].dead + Timeout + Backoff)
      BY <1>1, <1>2, <2>2, <3>1, Numbers DEF Attempting
    <3>3. Refreshing(c)'
      BY <1>2, <2>1, <2>2 DEF Refreshing
    <3>4. /\ call'[c].at = "send" /\ call'[c].by = clock
          /\ call'[c].tries = w.tries /\ clock <= clock
      BY <1>1, <2>1 DEF Calls
    <3>5. Attempting(c)'
      BY <2>2, <3>1, <3>2, <3>4 DEF Attempting
    <3> QED
      BY <1>4, <2>2, <3>3, <3>5 DEF ClientInv
<1> QED
  BY <1>3, <1>6, <1>7, <1>8, <1>9, <1>10, <1>11, <1>12, <1>13, <1>14, <1>15 DEF Work

\* ... and so the whole invariant.
LEMMA ClientSteps ==
  ASSUME IInv, NEW c \in Clients, NewClient(c) \/ Call(c) \/ Work(c)
  PROVE  IInv'
<1>1. TypeOK'
  BY ClientTyped DEF IInv, ClientInv, Refreshing
<1>2. UNCHANGED <<current, reset>> /\ (home' = home \/ home' = [home EXCEPT ![c] = current])
  BY DEF NewClient, Call, Work, UseToken, BeginRefresh, Read, Missing, Post, Granted, NotGranted, Send,
    Answered, Raises, Refused, Wake, server
<1>3. VaultLeft' /\ Behind'
  BY <1>2 DEF IInv, TypeOK, VaultLeft, Behind, Vaults
<1>4. ASSUME NEW d \in Clients PROVE ClientInv(d)'
  BY <1>1, OthersUntouched, OwnStep
<1> QED
  BY <1>1, <1>3, <1>4 DEF IInv

-----------------------------------------------------------------------------
(* The theorems *)

\* The invariant holds in every reachable state.
THEOREM Inductive == Spec => []IInv
<1>1. Init => IInv
  <2> SUFFICES ASSUME Init PROVE IInv
    OBVIOUS
  <2>1. NoCall \in Calls /\ NoForm \in [org : Orgs \union {None}, key : Keys]
        /\ Empty \in [Keys -> Stored] /\ 0 \in 0 .. MaxClock /\ 1 \in Vaults
    BY Numbers DEF NoCall, Calls, NoForm, Keys, Empty, Stored, Vaults
  <2>2. TypeOK
    BY <2>1 DEF Init, TypeOK
  <2>3. VaultLeft /\ Behind
    BY DEF Init, VaultLeft, Behind
  <2>4. ASSUME NEW c \in Clients PROVE ClientInv(c)
    BY DEF Init, ClientInv, Covered, Refreshing, Attempting, NoCall
  <2> QED
    BY <2>2, <2>3, <2>4 DEF IInv
<1>2. IInv /\ [Next]_vars => IInv'
  <2> SUFFICES ASSUME IInv, [Next]_vars PROVE IInv'
    OBVIOUS
  <2>1. CASE UNCHANGED vars
    BY <2>1 DEF vars, IInv, TypeOK, VaultLeft, Behind, ClientInv, Covered, Refreshing, Attempting
  <2>2. CASE Next
    BY <2>2, TickStep, ServerSteps, ClientSteps DEF Next
  <2> QED
    BY <2>1, <2>2
<1> QED
  BY <1>1, <1>2, PTL DEF Spec

\* Every variable keeps its type.
THEOREM TypeCorrect == Spec => []TypeOK
<1>1. IInv => TypeOK
  BY DEF IInv
<1> QED
  BY <1>1, Inductive, PTL

\* The 60 seconds cover two attempts, for all timeouts and sleeps that fit in them.
THEOREM TokenOutlivesTwoAttempts == Spec => []FreshForTwoAttempts
<1>1. IInv => FreshForTwoAttempts
  <2> SUFFICES ASSUME IInv, NEW c \in Clients, call[c].at = "send", call[c].tries <= 1
               PROVE  clock < token[c].dead
    BY DEF FreshForTwoAttempts
  <2>1. Attempting(c) /\ call[c] \in Calls /\ clock \in Nat /\ token[c] \in Tokens \union {None}
    BY Numbers DEF IInv, TypeOK, ClientInv
  <2>2. token[c].dead \in Int /\ call[c].tries \in {0, 1}
    BY <2>1 DEF Attempting, Tokens, Calls
  <2> QED
    BY <2>1, <2>2, Numbers, MarginAssumption DEF Attempting
<1> QED
  BY <1>1, Inductive, PTL

\* A refresh that begins after the purge or the expiry gets no token, whatever is
\* stored meanwhile and whoever notices.
THEOREM EndIsFinal == Spec => NoTokenAfterEnd
<1>1. IInv /\ [Next]_vars
        => [\A c \in Clients : call[c].late /\ token'[c] # token[c] => token'[c] = None]_vars
  <2> SUFFICES ASSUME IInv, Next, NEW c \in Clients, call[c].late, token'[c] # token[c]
               PROVE  token'[c] = None
    OBVIOUS
  <2>1. call[c].at = "read"
    BY DEF IInv, ClientInv, Refreshing
  <2>2. ~Granted(c)
    BY <2>1 DEF Granted, Steps
  <2> QED
    BY <2>1, <2>2 DEF IInv, TypeOK, Next, Tick, Submit, StoreKey, Poll, Reset, PurgeKey, PurgeStore,
      PurgeFlag, Purging, Replace, NewClient, Call, Work, UseToken, BeginRefresh, Read, Missing, Post,
      Granted, NotGranted, Send, Answered, Raises, Refused, Wake
<1> QED
  BY <1>1, Inductive, PTL DEF Spec, NoTokenAfterEnd

-----------------------------------------------------------------------------
(***************************************************************************)
(* The runs of the same server: MigrationUI, for any organisations, stages *)
(* to skip and number of runs. With one request at a time and no reset     *)
(* during a run, is_running says what the threads do. Both conditions are  *)
(* needed: with two requests, or with a reset, two runs may be at work at  *)
(* once.                                                                   *)
(***************************************************************************)
CONSTANTS Handlers, Skips, ResetsInRun, MaxRuns, MaxSessions

VARIABLES pc, mine, seen, run, requested, progress, stored, cache, sessions, report, unheard

U == INSTANCE MigrationUI WITH vault <- stored

\* The administrator waits for each answer, and leaves a run alone.
Alone == ~ResetsInRun /\ \A h, k \in Handlers : h = k

RunType ==
  [at : U!At, kind : {"migrate", "bulk"}, skips : Skips,
   org : Orgs \union {None}, users : Orgs \union {None}, raised : BOOLEAN]
ProgressType ==
  [stage : U!Stages \union {"IDLE", "STARTING", "BULK_IMPORT", "COMPLETED", "FAILED"},
   is_running : BOOLEAN, is_completed : BOOLEAN, error : BOOLEAN]

\* Runs are numbered as they are requested.
Unasked == \A r \in U!Runs : r > requested => run[r].at = "none"

\* While a run is being started, the flag is as the request has found it.
Starting ==
  \A h \in Handlers :
    /\ pc[h] = "prepare" => run[mine[h]].at = "prepared" /\ ~progress.is_running
    /\ pc[h] = "launch" => run[mine[h]].at = "flagged"

OneLive == \A r, s \in U!Runs : run[r].at \in U!Live /\ run[s].at \in U!Live => r = s

RunsInv == U!TypeOK /\ Unasked /\ Starting /\ OneLive /\ U!FlagIsHonest

\* The dictionary as it is written anew
LEMMA FreshTyped ==
  ASSUME NEW stage \in {"IDLE", "STARTING", "BULK_IMPORT"}, NEW running \in BOOLEAN
  PROVE  U!Fresh(stage, running) \in ProgressType /\ U!Fresh(stage, running).is_running = running
BY DEF U!Fresh, ProgressType

\* A record of a run after a change
LEMMA RunMoved ==
  ASSUME NEW x \in RunType, NEW to \in U!At
  PROVE  [x EXCEPT !.at = to] \in RunType /\ [x EXCEPT !.at = to].at = to
BY DEF RunType

\* ... after one that notes an error ...
LEMMA RunRaised ==
  ASSUME NEW x \in RunType, NEW to \in U!At
  PROVE  /\ [x EXCEPT !.at = to, !.raised = TRUE] \in RunType
         /\ [x EXCEPT !.at = to, !.raised = TRUE].at = to
BY DEF RunType

\* ... after one that notes whose users it migrates ...
LEMMA RunFlagged ==
  ASSUME NEW x \in RunType, NEW to \in U!At, NEW us \in Orgs \union {None}
  PROVE  [x EXCEPT !.at = to, !.users = us] \in RunType /\ [x EXCEPT !.at = to, !.users = us].at = to
BY DEF RunType

\* ... and after a request
LEMMA RunRequested ==
  ASSUME NEW x \in RunType, NEW to \in U!At, NEW k \in {"migrate", "bulk"}, NEW s \in Skips,
         NEW o \in Orgs \union {None}
  PROVE  /\ [x EXCEPT !.at = to, !.kind = k, !.skips = s, !.org = o] \in RunType
         /\ [x EXCEPT !.at = to, !.kind = k, !.skips = s, !.org = o].at = to
BY DEF RunType

\* A server that has just been started has no run.
LEMMA RunsInit ==
  ASSUME U!SkipsAssumption, U!BoundsAssumption, U!Init
  PROVE  RunsInv
<1>1. U!TypeOK
  <2>1. run \in [U!Runs -> RunType]
    <3>1. {} \in Skips
      BY DEF U!SkipsAssumption
    <3> QED
      BY <3>1 DEF U!Init, RunType, U!At
  <2>2. progress \in ProgressType
    BY DEF U!Init, ProgressType, U!Fresh
  <2>3. 1 \in U!Runs /\ 0 \in 0 .. MaxRuns /\ 0 \in 0 .. MaxSessions
    BY DEF U!BoundsAssumption, U!Runs
  <2> QED
    BY <2>1, <2>2, <2>3 DEF U!Init, U!TypeOK, RunType, ProgressType
<1>2. Unasked /\ Starting /\ OneLive /\ U!FlagIsHonest
  BY DEF U!Init, Unasked, Starting, OneLive, U!FlagIsHonest, U!Fresh, U!Live, U!Busy, U!Stages
<1> QED
  BY <1>1, <1>2 DEF RunsInv

\* What leaves the runs and the flag alone.
LEMMA SessionSteps ==
  ASSUME U!BoundsAssumption, RunsInv, Alone,
         U!Store \/ U!Reset \/ U!Control \/ \E h \in Handlers : U!Discover(h) \/ U!Discovered(h)
  PROVE  RunsInv'
<1> USE DEF RunsInv, Alone
<1>1. /\ UNCHANGED <<mine, run, requested>>
      /\ progress'.is_running = progress.is_running
      /\ progress' = progress \/ progress' = U!Fresh("IDLE", FALSE)
  <2>1. CASE U!Reset
    BY <2>1 DEF U!Reset, U!Fresh, U!TypeOK
  <2>2. CASE ~U!Reset
    BY <2>2 DEF U!Store, U!Control, U!Discover, U!Discovered
  <2> QED
    BY <2>1, <2>2
<1>2. /\ pc' \in [Handlers -> {"idle", "prepare", "launch", "discover"}]
      /\ \A h \in Handlers : pc'[h] \in {"prepare", "launch"} => pc'[h] = pc[h]
  <2>1. CASE \E h \in Handlers : U!Discover(h) \/ U!Discovered(h)
    BY <2>1 DEF U!Discover, U!Discovered, U!TypeOK
  <2>2. CASE U!Store \/ U!Reset \/ U!Control
    BY <2>2 DEF U!Store, U!Reset, U!Control, U!TypeOK
  <2> QED
    BY <2>1, <2>2
<1>3. U!TypeOK'
  <2>1. progress' \in ProgressType
    <3>1. progress \in ProgressType
      BY DEF U!TypeOK, ProgressType
    <3> QED
      BY <1>1, <3>1, FreshTyped
  <2>2. /\ seen' \in [Handlers -> Orgs \union {None}]
        /\ stored' \in Orgs \union {None} /\ cache' \in Orgs \union {None}
        /\ report' \in U!Runs \union {None} /\ unheard' \in BOOLEAN
    <3>1. CASE \E h \in Handlers : U!Discover(h) \/ U!Discovered(h)
      BY <3>1 DEF U!Discover, U!Discovered, U!TypeOK
    <3>2. CASE U!Store \/ U!Reset \/ U!Control
      BY <3>2 DEF U!Store, U!Reset, U!Control, U!TypeOK
    <3> QED
      BY <3>1, <3>2
  <2>3. sessions' \in 0 .. MaxSessions
    <3>1. sessions' = sessions \/ (sessions < MaxSessions /\ sessions' = sessions + 1)
      BY DEF U!Store, U!Reset, U!Control, U!Discover, U!Discovered
    <3> QED
      BY <3>1 DEF U!BoundsAssumption, U!TypeOK
  <2> QED
    BY <1>1, <1>2, <2>1, <2>2, <2>3 DEF U!TypeOK, ProgressType
<1>4. (Unasked /\ Starting /\ OneLive /\ U!FlagIsHonest)'
  BY <1>1, <1>2 DEF Unasked, Starting, OneLive, U!FlagIsHonest
<1> QED
  BY <1>3, <1>4

\* A request finds the flag down, so that nothing is at work until it has set it.
LEMMA StartSteps ==
  ASSUME U!BoundsAssumption, RunsInv, Alone, NEW h \in Handlers, U!Request(h) \/ U!Flag(h) \/ U!Refuse(h) \/ U!Launch(h)
  PROVE  RunsInv'
<1> USE DEF RunsInv, Alone
<1>0. Handlers = {h}
  OBVIOUS
<1>1. CASE U!Request(h)
  <2>1. /\ ~progress.is_running /\ requested' = requested + 1 /\ requested' \in U!Runs
        /\ pc' = [pc EXCEPT ![h] = "prepare"] /\ mine' = [mine EXCEPT ![h] = requested']
        /\ UNCHANGED <<seen, progress, stored, cache, sessions, report, unheard>>
    <3>1. requested \in 0 .. MaxRuns
      BY DEF U!TypeOK
    <3>1a. requested \in Nat /\ requested < MaxRuns /\ requested' = requested + 1
      <4>1. requested < MaxRuns /\ requested' = requested + 1
        BY <1>1 DEF U!Request
      <4> QED
        BY <3>1, <4>1 DEF U!BoundsAssumption
    <3>2. requested' \in U!Runs
      BY <3>1a DEF U!BoundsAssumption, U!Runs
    <3> QED
      BY <1>1, <3>1a, <3>2 DEF U!Request, U!Goto
  <2>2. PICK k \in {"migrate", "bulk"}, s \in Skips :
          run' = [run EXCEPT ![requested'] =
                    [@ EXCEPT !.at = "prepared", !.kind = k, !.skips = s, !.org = stored]]
    BY <1>1 DEF U!Request
  <2>3. U!TypeOK'
    <3> DEFINE x == [run[requested'] EXCEPT !.at = "prepared", !.kind = k, !.skips = s, !.org = stored]
    <3>1. x \in RunType
      <4>1. run[requested'] \in RunType /\ "prepared" \in U!At /\ stored \in Orgs \union {None}
        BY <2>1 DEF U!TypeOK, RunType, U!At
      <4> QED
        BY <4>1, RunRequested
    <3>2. run' = [run EXCEPT ![requested'] = x]
      BY <2>2
    <3>3. run' \in [U!Runs -> RunType]
      BY <2>1, <3>1, <3>2 DEF U!TypeOK, RunType
    <3> QED
      BY <2>1, <3>3 DEF U!BoundsAssumption, U!TypeOK, RunType, U!Runs
  <2>4. /\ run'[requested'].at = "prepared"
        /\ \A r \in U!Runs : r # requested' => run'[r].at = run[r].at
    BY <2>1, <2>2 DEF U!TypeOK
  <2>5. \A r \in U!Runs : run'[r].at \notin U!Live
    BY <2>1, <2>4 DEF U!FlagIsHonest, U!Live, U!Busy, U!Stages
  <2>6. (Unasked /\ Starting)'
    BY <1>0, <2>1, <2>4 DEF Unasked, Starting, U!TypeOK, U!Runs
  <2> QED
    BY <2>1, <2>3, <2>5, <2>6 DEF OneLive, U!FlagIsHonest
<1>2. CASE U!Flag(h)
  <2> DEFINE r == mine[h]
  <2>1. /\ r \in U!Runs /\ pc' = [pc EXCEPT ![h] = "launch"]
        /\ UNCHANGED <<mine, seen, requested, stored, sessions, report, unheard>>
        /\ run[r].at = "prepared" /\ ~progress.is_running
    BY <1>2 DEF U!Flag, U!Goto, U!TypeOK, Starting
  <2>2. /\ run' \in [U!Runs -> RunType]
        /\ run'[r].at = "flagged"
        /\ \A s \in U!Runs : s # r => run'[s].at = run[s].at
    <3>1. CASE run' = [run EXCEPT ![r].at = "flagged"]
      BY <2>1, <3>1 DEF U!TypeOK, RunType, U!At, U!Live
    <3>2. CASE /\ cache' \in Orgs \union {None}
               /\ run' = [run EXCEPT ![r] = [@ EXCEPT !.at = "flagged", !.users = cache']]
      <4>1. /\ [run[r] EXCEPT !.at = "flagged", !.users = cache'] \in RunType
            /\ [run[r] EXCEPT !.at = "flagged", !.users = cache'].at = "flagged"
        <5>1. run[r] \in RunType /\ "flagged" \in U!At
          BY <2>1 DEF U!TypeOK, RunType, U!At, U!Live
        <5> QED
          BY <3>2, <5>1, RunFlagged
      <4> QED
        BY <2>1, <3>2, <4>1 DEF U!TypeOK, RunType
    <3>3. \/ U!Move(r, "flagged")
          \/ /\ cache' \in Orgs \union {None}
             /\ run' = [run EXCEPT ![r] = [@ EXCEPT !.at = "flagged", !.users = cache']]
      <4>1. run[r] \in RunType /\ cache \in Orgs \union {None}
        BY <2>1 DEF U!TypeOK, RunType
      <4>2. run[r].org \in Orgs \union {None}
        BY <4>1 DEF RunType
      <4> QED
        BY <1>2, <4>1, <4>2 DEF U!Flag
    <3> QED
      BY <3>1, <3>2, <3>3 DEF U!Move
  <2>3. /\ progress' \in {U!Fresh("BULK_IMPORT", TRUE), U!Fresh("STARTING", TRUE)}
        /\ cache' \in Orgs \union {None}
    <3>1. cache \in Orgs \union {None}
      BY DEF U!TypeOK
    <3>2. run[r] \in RunType
      BY <2>1 DEF U!TypeOK, RunType
    <3>3. run[r].org \in Orgs \union {None}
      BY <3>2 DEF RunType
    <3> QED
      BY <1>2, <3>1, <3>3 DEF U!Flag
  <2>4. U!TypeOK'
    <3>1. progress' \in ProgressType
      BY <2>3, FreshTyped
    <3> QED
      BY <2>1, <2>2, <2>3, <3>1 DEF U!TypeOK, RunType, ProgressType
  <2>5. \A s \in U!Runs : run'[s].at \in U!Live <=> s = r
    BY <2>1, <2>2 DEF U!FlagIsHonest, U!Live
  <2>6. (Unasked /\ Starting)'
    BY <1>0, <2>1, <2>2 DEF Unasked, Starting, U!TypeOK
  <2> QED
    BY <2>1, <2>3, <2>4, <2>5, <2>6 DEF OneLive, U!FlagIsHonest, U!Fresh
<1>3. CASE U!Refuse(h)
  <2> DEFINE r == mine[h]
  <2>1. /\ r \in U!Runs /\ run[r].at = "prepared" /\ pc' = [pc EXCEPT ![h] = "idle"]
        /\ run' = [run EXCEPT ![r].at = "refused"]
        /\ UNCHANGED <<mine, seen, requested, progress, stored, cache, sessions, report, unheard>>
    BY <1>3 DEF U!Refuse, U!Goto, U!Move, U!TypeOK, Starting
  <2>2. U!TypeOK'
    BY <2>1 DEF U!TypeOK, U!At
  <2>3. \A s \in U!Runs : run'[s].at = IF s = r THEN "refused" ELSE run[s].at
    BY <2>1 DEF U!TypeOK
  <2>4. (Unasked /\ Starting)'
    BY <1>0, <2>1, <2>3 DEF Unasked, Starting, U!TypeOK
  <2> QED
    BY <2>1, <2>2, <2>3, <2>4 DEF OneLive, U!FlagIsHonest, U!Live, U!Busy, U!Stages
<1>4. CASE U!Launch(h)
  <2> DEFINE r == mine[h]
  <2>1. /\ r \in U!Runs /\ run[r].at = "flagged" /\ pc' = [pc EXCEPT ![h] = "idle"]
        /\ UNCHANGED <<mine, seen, requested, stored, cache, sessions, report, unheard>>
    BY <1>4 DEF U!Launch, U!Goto, U!TypeOK, Starting
  <2>2. \E to \in {"bulk", "PROVISIONING"} : run' = [run EXCEPT ![r].at = to]
    BY <1>4 DEF U!Launch, U!Move
  <2>3. progress' = progress \/ progress' = [progress EXCEPT !.stage = "PROVISIONING"]
    BY <1>4 DEF U!Launch
  <2>4. U!TypeOK'
    BY <2>1, <2>2, <2>3 DEF U!TypeOK, U!At, U!Live, U!Busy, U!Stages
  <2>5. \A s \in U!Runs : run'[s].at \in U!Live <=> run[s].at \in U!Live
    BY <2>1, <2>2 DEF U!TypeOK, U!Live, U!Busy, U!Stages
  <2>6. \A s \in U!Runs : s # r => run'[s].at = run[s].at
    BY <2>1, <2>2 DEF U!TypeOK
  <2>7. Unasked' /\ Starting'
    BY <1>0, <2>1, <2>6 DEF Unasked, Starting, U!TypeOK
  <2>8. progress'.is_running = progress.is_running
    BY <2>3 DEF U!TypeOK
  <2> QED
    BY <2>4, <2>5, <2>7, <2>8 DEF OneLive, U!FlagIsHonest
<1> QED
  BY <1>1, <1>2, <1>3, <1>4

\* The worker of the run at work lowers the flag when it ends, and no other does.
LEMMA WorkSteps ==
  ASSUME RunsInv, NEW r \in U!Runs, U!Work(r)
  PROVE  RunsInv'
<1> USE DEF RunsInv
<1>1. /\ UNCHANGED U!worker
      /\ report' \in U!Runs \union {None}
      /\ run[r].at \in U!Busy \union {"completed", "failed"}
  BY DEF U!Work, U!NextStage, U!MailboxDone, U!WriteReport, U!Complete, U!Summarise, U!Fail, U!SkipMailbox,
    U!NoteError, U!BulkDone, U!BulkEnd, U!Busy, U!Stages, U!TypeOK
<1> DEFINE
      Becomes(x) ==
        /\ run' = [run EXCEPT ![r] = x]
        /\ x.at \notin {"flagged", "prepared", "none"}
        /\ IF x.at \in U!Live THEN run[r].at \in U!Live /\ progress'.is_running = progress.is_running
           ELSE progress'.is_running = IF run[r].at \in U!Live THEN FALSE ELSE progress.is_running
<1>2. \E x \in RunType : Becomes(x)
  <2>0. run[r] \in RunType /\ progress \in ProgressType
    BY DEF U!TypeOK, RunType, ProgressType
  <2>1. ASSUME NEW to \in U!Live \ {"flagged"}, U!Move(r, to), run[r].at \in U!Live,
               progress'.is_running = progress.is_running
        PROVE  \E x \in RunType : Becomes(x)
    <3> DEFINE x == [run[r] EXCEPT !.at = to]
    <3>1. to \in U!At /\ to \notin {"flagged", "prepared", "none"}
      BY DEF U!At, U!Live, U!Busy, U!Stages
    <3>2. x \in RunType /\ x.at = to
      BY <2>0, <3>1, RunMoved
    <3> QED
      BY <2>1, <3>1, <3>2 DEF U!Move
  <2>2. ASSUME NEW to \in {"completed", "failed", "done"}, U!Move(r, to),
               progress'.is_running = IF run[r].at \in U!Live THEN FALSE ELSE progress.is_running
        PROVE  \E x \in RunType : Becomes(x)
    <3> DEFINE x == [run[r] EXCEPT !.at = to]
    <3>1. to \in U!At /\ to \notin U!Live \union {"flagged", "prepared", "none"}
      BY DEF U!At, U!Live, U!Busy, U!Stages
    <3>2. x \in RunType /\ x.at = to
      BY <2>0, <3>1, RunMoved
    <3> QED
      BY <2>2, <3>1, <3>2 DEF U!Move
  <2>3. CASE U!NextStage(r)
    <3>1. U!After[run[r].at] \in {"CALENDAR", "CONTACTS", "MAILBOX"}
      BY <2>3 DEF U!NextStage, U!After, U!Stages
    <3>2. U!After[run[r].at] \in U!Live \ {"flagged"} /\ run[r].at \in U!Live
      BY <2>3, <3>1 DEF U!NextStage, U!Live, U!Busy, U!Stages
    <3>3. progress'.is_running = progress.is_running
      BY <2>0, <2>3 DEF U!NextStage, ProgressType
    <3> QED
      BY <2>1, <2>3, <3>2, <3>3 DEF U!NextStage
  <2>4. CASE U!MailboxDone(r) \/ U!WriteReport(r)
    <3>1. run[r].at \in U!Live /\ {"report", "complete"} \subseteq U!Live \ {"flagged"}
      BY <2>4 DEF U!MailboxDone, U!WriteReport, U!Live, U!Busy, U!Stages
    <3> QED
      BY <2>1, <2>4, <3>1 DEF U!MailboxDone, U!WriteReport
  <2>5. CASE U!BulkDone(r)
    <3>1. run[r].at \in U!Live /\ "bulk_done" \in U!Live \ {"flagged"}
      BY <2>5 DEF U!BulkDone, U!Live, U!Busy
    <3>2. progress'.is_running = progress.is_running
      BY <2>0, <2>5 DEF U!BulkDone, ProgressType
    <3> QED
      BY <2>1, <2>5, <3>1, <3>2 DEF U!BulkDone
  <2>6. CASE U!Complete(r) \/ U!BulkEnd(r)
    <3>1. run[r].at \in U!Live
      BY <2>6 DEF U!Complete, U!BulkEnd, U!Live, U!Busy
    <3>2. progress'.is_running = FALSE
      BY <2>0, <2>6 DEF U!Complete, U!BulkEnd, ProgressType
    <3> QED
      BY <2>2, <2>6, <3>1, <3>2 DEF U!Complete, U!BulkEnd
  <2>7. CASE U!Summarise(r) \/ U!NoteError(r)
    <3>1. run[r].at \notin U!Live
      BY <2>7 DEF U!Summarise, U!NoteError, U!Live, U!Busy, U!Stages
    <3>2. progress'.is_running = progress.is_running
      BY <2>0, <2>7 DEF U!Summarise, U!NoteError, ProgressType
    <3> QED
      BY <2>2, <2>7, <3>1, <3>2 DEF U!Summarise, U!NoteError
  <2>8. CASE U!SkipMailbox(r)
    <3>1. run[r].at \in U!Live
      BY <2>8 DEF U!SkipMailbox, U!Live, U!Busy, U!Stages
    <3>2. progress'.is_running = FALSE
      BY <2>0, <2>8 DEF U!SkipMailbox, U!Failed, ProgressType
    <3> QED
      BY <2>2, <2>8, <3>1, <3>2 DEF U!SkipMailbox
  <2>9. CASE U!Fail(r)
    <3> DEFINE x == [run[r] EXCEPT !.at = "failed", !.raised = TRUE]
    <3>1. "failed" \in U!At /\ "failed" \notin U!Live \union {"flagged", "prepared", "none"}
      BY DEF U!At, U!Live, U!Busy, U!Stages
    <3>2. x \in RunType /\ x.at = "failed"
      BY <2>0, <3>1, RunRaised
    <3>3. run[r].at \in U!Live /\ run' = [run EXCEPT ![r] = x]
      BY <2>9 DEF U!Fail, U!Live, U!Busy
    <3>4. progress'.is_running = FALSE
      BY <2>0, <2>9 DEF U!Fail, U!Failed, ProgressType
    <3> QED
      BY <3>1, <3>2, <3>3, <3>4
  <2> QED
    BY <2>3, <2>4, <2>5, <2>6, <2>7, <2>8, <2>9 DEF U!Work
<1>2a. PICK x \in RunType : Becomes(x)
  BY <1>2
<1>3. progress' \in ProgressType
  <2>1. CASE U!NextStage(r)
    <3>1. U!After[run[r].at] \in U!Stages
      BY <2>1 DEF U!NextStage, U!After, U!Stages
    <3> QED
      BY <2>1, <3>1 DEF U!NextStage, U!TypeOK, ProgressType
  <2> QED
    BY <2>1 DEF U!Work, U!MailboxDone, U!WriteReport, U!Complete, U!Summarise, U!Fail, U!SkipMailbox,
      U!NoteError, U!BulkDone, U!BulkEnd, U!Failed, U!TypeOK, ProgressType
<1>4. U!TypeOK'
  BY <1>1, <1>2a, <1>3 DEF U!TypeOK, RunType, ProgressType, U!worker
<1>5. \A s \in U!Runs : run'[s].at = IF s = r THEN run'[r].at ELSE run[s].at
  BY <1>2a DEF U!TypeOK
<1>6. run'[r].at \notin {"flagged", "prepared", "none"} /\ (run'[r].at \in U!Live => run[r].at \in U!Live)
  BY <1>2a DEF U!TypeOK
<1>7. Unasked' /\ Starting'
  <2>1. ~(progress'.is_running /\ ~progress.is_running)
    BY <1>2a DEF U!TypeOK
  <2>2. progress'.is_running \in BOOLEAN /\ progress.is_running \in BOOLEAN
    BY <1>3 DEF U!TypeOK, ProgressType
  <2>3. \A h \in Handlers : pc[h] \in {"prepare", "launch"} => mine[h] # r
    BY <1>1 DEF Starting, U!TypeOK, U!Busy, U!Stages
  <2> QED
    BY <1>1, <1>5, <1>6, <2>1, <2>2, <2>3 DEF Unasked, Starting, U!worker, U!TypeOK, U!Busy, U!Stages
<1>8. OneLive'
  BY <1>5, <1>6 DEF OneLive
<1>9. U!FlagIsHonest'
  <2>1. CASE run'[r].at \in U!Live
    BY <1>2a, <1>5, <2>1 DEF U!FlagIsHonest, U!TypeOK
  <2>2. CASE run'[r].at \notin U!Live /\ run[r].at \in U!Live
    BY <1>2a, <1>5, <2>2 DEF U!FlagIsHonest, OneLive, U!TypeOK
  <2>3. CASE run'[r].at \notin U!Live /\ run[r].at \notin U!Live
    BY <1>2a, <1>5, <2>3 DEF U!FlagIsHonest, U!TypeOK
  <2> QED
    BY <2>1, <2>2, <2>3
<1> QED
  BY <1>4, <1>7, <1>8, <1>9

\* The invariant of a server that one administrator uses.
THEOREM RunsInductive ==
  ASSUME U!SkipsAssumption, U!BoundsAssumption, Alone
  PROVE  U!Spec => []RunsInv
<1>1. U!Init => RunsInv
  BY RunsInit
<1>2. RunsInv /\ [U!Next]_U!vars => RunsInv'
  <2> SUFFICES ASSUME RunsInv, [U!Next]_U!vars PROVE RunsInv'
    OBVIOUS
  <2>1. CASE UNCHANGED U!vars
    BY <2>1 DEF U!vars, RunsInv, U!TypeOK, Unasked, Starting, OneLive, U!FlagIsHonest
  <2>2. CASE U!Store \/ U!Reset \/ U!Control \/ \E h \in Handlers : U!Discover(h) \/ U!Discovered(h)
    BY <2>2, SessionSteps
  <2>3. CASE \E h \in Handlers : U!Request(h) \/ U!Flag(h) \/ U!Refuse(h) \/ U!Launch(h)
    BY <2>3, StartSteps
  <2>4. CASE \E r \in U!Runs : U!Work(r)
    BY <2>4, WorkSteps
  <2> QED
    BY <2>1, <2>2, <2>3, <2>4 DEF U!Next, U!Serve
<1> QED
  BY <1>1, <1>2, PTL DEF U!Spec

\* The flag is set exactly while a run that was started has not ended, whichever way
\* runs end and however many there were.
THEOREM FlagHonest ==
  ASSUME U!SkipsAssumption, U!BoundsAssumption, Alone
  PROVE  U!Spec => []U!FlagIsHonest
<1>1. RunsInv => U!FlagIsHonest
  BY DEF RunsInv
<1> QED
  BY <1>1, RunsInductive, PTL

\* The 400 of _handle_migrate and _handle_bulk_import does its duty, then: no two runs
\* are at work at once.
THEOREM OneRun ==
  ASSUME U!SkipsAssumption, U!BoundsAssumption, Alone
  PROVE  U!Spec => [](\A r, s \in U!Runs : run[r].at \in U!Busy /\ run[s].at \in U!Busy => r = s)
<1>1. RunsInv => \A r, s \in U!Runs : run[r].at \in U!Busy /\ run[s].at \in U!Busy => r = s
  BY DEF RunsInv, OneLive, U!Live
<1> QED
  BY <1>1, RunsInductive, PTL
=============================================================================
