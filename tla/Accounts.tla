------------------------------ MODULE Accounts ------------------------------
(***************************************************************************)
(* Accounts and their tokens: add_account and remove_account, the token    *)
(* provider with its cache, and the readers that ask it for access tokens  *)
(* (the sync cycle before each of its actions, get_about_info once), over  *)
(* the accounts rows, the keyring and what Google granted.                 *)
(*                                                                         *)
(* An access token is the time at which Google stops accepting it.  An     *)
(* account stands for its id and its keyring key, which is derived from    *)
(* the id; add_account always takes a new id.                              *)
(***************************************************************************)
EXTENDS Integers

CONSTANTS
  Account,     \* account ids
  Reader,      \* tasks that ask for access tokens
  Lifetime,    \* expires_in of an access token
  Buffer,      \* REFRESH_BUFFER_SECS
  MaxPrompt,   \* longest time from a sign-in's token to its place in the cache
  None,
  MaxTime,     \* bound: the clock
  MaxFailures  \* bound: calls of Google, the keyring and the database that fail

ASSUME AccountsAssumption ==
  /\ {Lifetime, Buffer, MaxPrompt, MaxTime, MaxFailures} \subseteq Nat
  /\ None \notin Nat

VARIABLES
  \* Rows of the accounts table; refresh tokens in the keyring; refresh tokens
  \* that Google accepts.
  accounts, keyring, granted,
  \* TokenProvider::cache.
  cache,
  now,
  \* The readers, the add_account and remove_account calls.
  readers, adding, removing,
  \* History: accounts whose tokens a removal took away for good.  Failures left.
  forgotten, left

calls == <<readers, adding, removing>>
vars  == <<accounts, keyring, granted, cache, now, calls, forgotten, left>>

\* What the cache believes of a token is its expires_at.
CacheEntry == [token : Nat, expires : Nat]

\* A reader, with the clock it read at the start of get_valid_access_token and
\* what the cache gave or Google answered.
Reading(at, a, began, token) == [at |-> at, account |-> a, began |-> began, token |-> token]

Idle == Reading("idle", None, 0, None)

ReaderState ==
  {Idle} \cup [at : {"ask", "keyring", "refresh"}, account : Account, began : Nat, token : {None}]
         \cup [at : {"answered", "holds"}, account : Account, began : Nat, token : Nat]

TypeOK ==
  /\ accounts \subseteq Account /\ keyring \subseteq Account /\ granted \subseteq Account
  /\ cache \in [Account -> CacheEntry \cup {None}]
  /\ now \in Nat
  /\ readers \in [Reader -> ReaderState]
  /\ adding \in [Account -> [at : {"new", "exchanged", "stored", "primed", "over"}, issued : Nat]]
  /\ removing \in [Account -> {"no", "lookup", "revoke", "forget", "uncache", "cascade", "failed"}]
  /\ forgotten \subseteq Account
  /\ left \in Nat

\* The daemon has just started, with the accounts it found in the database.
Init ==
  /\ accounts \in SUBSET Account /\ keyring = accounts /\ granted = accounts
  /\ cache = [a \in Account |-> None]
  /\ now = 0
  /\ readers = [r \in Reader |-> Idle]
  /\ adding = [a \in Account |-> [at |-> IF a \in accounts THEN "over" ELSE "new", issued |-> 0]]
  /\ removing = [a \in Account |-> "no"]
  /\ forgotten = {}
  /\ left = MaxFailures

Fault == left > 0 /\ left' = left - 1

\* Signing in is not bound to the clock, but its two writes follow within MaxPrompt.
Tick ==
  /\ now < MaxTime
  /\ \A a \in Account :
       adding[a].at \in {"exchanged", "stored"} => now < adding[a].issued + MaxPrompt
  /\ now' = now + 1
  /\ UNCHANGED <<accounts, keyring, granted, cache, calls, forgotten, left>>

-----------------------------------------------------------------------------
(***************************************************************************)
(* Readers: get_valid_access_token, and the call the token is for          *)
(***************************************************************************)

\* A cycle starts, or get_about_info is called: the account's row is there.
Ask(r, a) ==
  /\ readers[r] = Idle /\ a \in accounts
  /\ readers' = [readers EXCEPT ![r] = Reading("ask", a, 0, None)]
  /\ UNCHANGED <<accounts, keyring, granted, cache, now, adding, removing, forgotten, left>>

Fresh(a) == cache[a] # None /\ cache[a].expires > now + Buffer

\* A faulty variant: the token of the hit is not handed on.
ReadCache_NoToken(r) ==
  LET a == readers[r].account IN
  /\ readers[r].at = "ask"
  /\ readers' = [readers EXCEPT ![r] =
       IF Fresh(a) THEN Reading("holds", a, now, None) ELSE Reading("keyring", a, now, None)]
  /\ UNCHANGED <<accounts, keyring, granted, cache, now, adding, removing, forgotten, left>>

\* The cache is asked under its read lock, with the time read just before.
ReadCache(r) ==
  LET a == readers[r].account IN
  /\ readers[r].at = "ask"
  /\ readers' = [readers EXCEPT ![r] =
       IF Fresh(a) THEN Reading("holds", a, now, cache[a].token)
                   ELSE Reading("keyring", a, now, None)]
  /\ UNCHANGED <<accounts, keyring, granted, cache, now, adding, removing, forgotten, left>>

\* No refresh token is AuthExpired; a locked keyring is an error as well.
ReadKeyring(r) ==
  /\ readers[r].at = "keyring"
  /\ \/ /\ readers[r].account \in keyring
        /\ readers' = [readers EXCEPT ![r].at = "refresh"]
        /\ UNCHANGED left
     \/ /\ readers[r].account \notin keyring
        /\ readers' = [readers EXCEPT ![r] = Idle]
        /\ UNCHANGED left
     \/ /\ Fault
        /\ readers' = [readers EXCEPT ![r] = Idle]
  /\ UNCHANGED <<accounts, keyring, granted, cache, now, adding, removing, forgotten>>

\* Google issues an access token for a refresh token it still accepts.
Refresh(r) ==
  /\ readers[r].at = "refresh"
  /\ \/ /\ readers[r].account \in granted
        /\ readers' = [readers EXCEPT ![r] =
                         Reading("answered", @.account, @.began, now + Lifetime)]
        /\ UNCHANGED left
     \/ /\ readers[r].account \notin granted
        /\ readers' = [readers EXCEPT ![r] = Idle]
        /\ UNCHANGED left
     \/ /\ Fault
        /\ readers' = [readers EXCEPT ![r] = Idle]
  /\ UNCHANGED <<accounts, keyring, granted, cache, now, adding, removing, forgotten>>

\* A faulty variant: the lifetime is counted from the arrival of the answer.
CacheAnswer_FromNow(r) ==
  LET a == readers[r].account IN
  /\ readers[r].at = "answered"
  /\ cache' = [cache EXCEPT ![a] = [token |-> readers[r].token, expires |-> now + Lifetime]]
  /\ readers' = [readers EXCEPT ![r].at = "holds"]
  /\ UNCHANGED <<accounts, keyring, granted, now, adding, removing, forgotten, left>>

\* The answer, whenever it arrives, goes to the cache under its write lock; its
\* lifetime is counted from the time read before the refresh.
CacheAnswer(r) ==
  LET a == readers[r].account IN
  /\ readers[r].at = "answered"
  /\ cache' = [cache EXCEPT ![a] =
                 [token |-> readers[r].token, expires |-> readers[r].began + Lifetime]]
  /\ readers' = [readers EXCEPT ![r].at = "holds"]
  /\ UNCHANGED <<accounts, keyring, granted, now, adding, removing, forgotten, left>>

\* The Drive call is over: a cycle asks again for its next action, or ends.
UseToken(r) ==
  /\ readers[r].at = "holds"
  /\ \/ readers' = [readers EXCEPT ![r] = Idle]
     \/ readers' = [readers EXCEPT ![r] = Reading("ask", readers[r].account, 0, None)]
  /\ UNCHANGED <<accounts, keyring, granted, cache, now, adding, removing, forgotten, left>>

-----------------------------------------------------------------------------
(***************************************************************************)
(* add_account                                                             *)
(***************************************************************************)

\* The user has consented and the code is exchanged for both tokens.
ExchangeCode(a) ==
  /\ adding[a].at = "new"
  /\ granted' = granted \cup {a}
  /\ adding' = [adding EXCEPT ![a] = [at |-> "exchanged", issued |-> now]]
  /\ UNCHANGED <<accounts, keyring, cache, now, readers, removing, forgotten, left>>

\* A faulty variant: a keyring that does not store the token is only logged.
StoreRefreshToken_Logged(a) ==
  /\ adding[a].at = "exchanged"
  /\ adding' = [adding EXCEPT ![a].at = "stored"]
  /\ \/ keyring' = keyring \cup {a} /\ UNCHANGED left
     \/ Fault /\ UNCHANGED keyring
  /\ UNCHANGED <<accounts, granted, cache, now, readers, removing, forgotten>>

StoreRefreshToken(a) ==
  /\ adding[a].at = "exchanged"
  /\ \/ /\ keyring' = keyring \cup {a}
        /\ adding' = [adding EXCEPT ![a].at = "stored"]
        /\ UNCHANGED left
     \/ /\ Fault
        /\ adding' = [adding EXCEPT ![a] = [at |-> "over", issued |-> 0]]
        /\ UNCHANGED keyring
  /\ UNCHANGED <<accounts, granted, cache, now, readers, removing, forgotten>>

\* cache_insert counts the lifetime from now, not from the exchange.
PrimeCache(a) ==
  /\ adding[a].at = "stored"
  /\ cache' = [cache EXCEPT ![a] =
                 [token |-> adding[a].issued + Lifetime, expires |-> now + Lifetime]]
  /\ adding' = [adding EXCEPT ![a] = [at |-> "primed", issued |-> 0]]
  /\ UNCHANGED <<accounts, keyring, granted, now, readers, removing, forgotten, left>>

\* about.get and userinfo may fail; without the row the call has failed, and
\* what it left in keyring and cache stays there.
InsertAccount(a) ==
  /\ adding[a].at = "primed"
  /\ adding' = [adding EXCEPT ![a].at = "over"]
  /\ \/ accounts' = accounts \cup {a} /\ UNCHANGED left
     \/ Fault /\ UNCHANGED accounts
  /\ UNCHANGED <<keyring, granted, cache, now, readers, removing, forgotten>>

-----------------------------------------------------------------------------
(***************************************************************************)
(* remove_account                                                          *)
(***************************************************************************)

Step(a, from, to) ==
  /\ removing[a] = from
  /\ removing' = [removing EXCEPT ![a] = to]

RemoveAccount(a) ==
  /\ a \in accounts
  /\ \/ Step(a, "no", "lookup") \/ Step(a, "failed", "lookup")
  /\ UNCHANGED <<accounts, keyring, granted, cache, now, readers, adding, forgotten, left>>

\* An error of the keyring ends revoke_and_remove, and the row is deleted anyway;
\* but no "secure storage" is read as no entry.
LookupRefreshToken(a) ==
  /\ \/ a \in keyring /\ Step(a, "lookup", "revoke") /\ UNCHANGED left
     \/ a \notin keyring /\ Step(a, "lookup", "forget") /\ UNCHANGED left
     \/ Fault /\ (Step(a, "lookup", "forget") \/ Step(a, "lookup", "cascade"))
  /\ UNCHANGED <<accounts, keyring, granted, cache, now, readers, adding, forgotten>>

\* Revocation at Google is best effort.
RevokeToken(a) ==
  /\ Step(a, "revoke", "forget")
  /\ \/ granted' = granted \ {a} /\ UNCHANGED left
     \/ Fault /\ UNCHANGED granted
  /\ UNCHANGED <<accounts, keyring, cache, now, readers, adding, forgotten>>

\* So is the deletion of the keyring entry; but a keyring that cannot be opened
\* at all ends revoke_and_remove here, with the cache untouched.
DeleteRefreshToken(a) ==
  /\ \/ Step(a, "forget", "uncache") /\ keyring' = keyring \ {a} /\ UNCHANGED left
     \/ Fault /\ (Step(a, "forget", "uncache") \/ Step(a, "forget", "cascade"))
              /\ UNCHANGED keyring
  /\ UNCHANGED <<accounts, granted, cache, now, readers, adding, forgotten>>

\* A refresh that read the keyring before the entry was deleted.
Refreshing(a) ==
  \E r \in Reader : readers[r].account = a /\ readers[r].at \in {"refresh", "answered"}

\* A faulty variant: the cached token is left to expire.
Uncache_LeavesToken(a) ==
  /\ Step(a, "uncache", "cascade")
  /\ forgotten' = IF a \notin keyring /\ ~Refreshing(a) THEN forgotten \cup {a} ELSE forgotten
  /\ UNCHANGED <<accounts, keyring, granted, cache, now, readers, adding, left>>

Uncache(a) ==
  /\ Step(a, "uncache", "cascade")
  /\ cache' = [cache EXCEPT ![a] = None]
  /\ forgotten' = IF a \notin keyring /\ ~Refreshing(a) THEN forgotten \cup {a} ELSE forgotten
  /\ UNCHANGED <<accounts, keyring, granted, now, readers, adding, left>>

\* delete_cascade: one transaction, all or nothing.
DeleteCascade(a) ==
  /\ \/ Step(a, "cascade", "no") /\ accounts' = accounts \ {a} /\ UNCHANGED left
     \/ Step(a, "cascade", "failed") /\ Fault /\ UNCHANGED accounts
  /\ UNCHANGED <<keyring, granted, cache, now, readers, adding, forgotten>>

-----------------------------------------------------------------------------
\* The daemon stops and starts again: rows, keyring and grants stay.
Restart ==
  /\ Fault
  /\ cache' = [a \in Account |-> None]
  /\ readers' = [r \in Reader |-> Idle]
  /\ adding' = [a \in Account |-> [at |-> IF adding[a].at = "new" THEN "new" ELSE "over", issued |-> 0]]
  /\ removing' = [a \in Account |-> IF removing[a] = "no" THEN "no" ELSE "failed"]
  /\ UNCHANGED <<accounts, keyring, granted, now, forgotten>>

Read(r) ==
  \/ \E a \in Account : Ask(r, a)
  \/ ReadCache(r) \/ ReadKeyring(r) \/ Refresh(r) \/ CacheAnswer(r) \/ UseToken(r)

AuthorizeFlow(a) == ExchangeCode(a) \/ StoreRefreshToken(a)

AddAccount(a) == AuthorizeFlow(a) \/ PrimeCache(a) \/ InsertAccount(a)

Remove(a) ==
  \/ RemoveAccount(a) \/ LookupRefreshToken(a) \/ RevokeToken(a)
  \/ DeleteRefreshToken(a) \/ Uncache(a) \/ DeleteCascade(a)

Next ==
  \/ Tick \/ Restart
  \/ \E r \in Reader : Read(r)
  \/ \E a \in Account : AddAccount(a) \/ Remove(a)

Spec == Init /\ [][Next]_vars

-----------------------------------------------------------------------------
(***************************************************************************)
(* Properties                                                              *)
(***************************************************************************)

\* Whatever the cache would hand out is alive (TODO.md:49, "refresh before
\* expiry"): also when answers arrive late, when an older answer replaces a
\* newer one, and after a sign-in that the keyring held up.
TokenAlive ==
  \A a \in Account : Fresh(a) => cache[a].token > now

\* An account that is listed can be used: its refresh token is in the keyring,
\* unless it is being, or was nearly, removed.
AccountUsable ==
  \A a \in accounts : a \in keyring \/ removing[a] # "no"

\* "Revokes the refresh token at Google and removes it from the store"
\* (flow.rs:150): once a removal that no refresh overlapped has emptied keyring
\* and cache, no reader gets a token of the account any more, not even the cycle
\* that is running.
RemovalStands ==
  [][\A r \in Reader :
       readers[r].at # "holds" /\ readers'[r].at = "holds" => readers'[r].account \notin forgotten]_vars
=============================================================================
