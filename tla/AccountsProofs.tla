--------------------------- MODULE AccountsProofs ---------------------------
(***************************************************************************)
(* Proofs about Accounts for every set of accounts, every number of        *)
(* readers and every lifetime: its types, that a token from the cache is   *)
(* alive, that a listed account is usable, and that a removal stands.      *)
(***************************************************************************)
EXTENDS Accounts, TLAPS

-----------------------------------------------------------------------------
(* Types: one lemma per group of actions. *)

LEMMA TypeInit == Init => TypeOK
BY AccountsAssumption DEF Init, TypeOK, ReaderState, Idle, Reading

LEMMA FaultOK == TypeOK /\ Fault => left' \in Nat
BY DEF TypeOK, Fault

LEMMA TypeReaders ==
  ASSUME TypeOK, NEW r \in Reader, Read(r)
  PROVE  TypeOK'
<1> USE AccountsAssumption
<1> DEFINE a == readers[r].account
<1>1. readers[r] \in ReaderState
  BY DEF TypeOK
<1>2. ASSUME NEW b \in Account, Ask(r, b)
      PROVE  TypeOK'
  <2>1. readers' = [readers EXCEPT ![r] = Reading("ask", b, 0, None)]
    BY <1>2 DEF Ask, TypeOK
  <2>2. Reading("ask", b, 0, None) \in ReaderState
    BY DEF ReaderState, Reading
  <2>3. QED
    BY <1>2, <2>1, <2>2 DEF Ask, TypeOK
<1>3. CASE ReadCache(r)
  <2>1. a \in Account /\ readers[r].token = None
    BY <1>1, <1>3 DEF ReadCache, ReaderState, Idle, Reading
  <2>2. Fresh(a) => cache[a].token \in Nat
    BY <2>1 DEF Fresh, TypeOK, CacheEntry
  <2>3. Reading("keyring", a, now, None) \in ReaderState
    BY <1>1, <1>3 DEF ReadCache, ReaderState, Idle, Reading, TypeOK
  <2>4. Fresh(a) => Reading("holds", a, now, cache[a].token) \in ReaderState
    BY <1>1, <1>3, <2>2 DEF ReadCache, ReaderState, Idle, Reading, TypeOK
  <2>5. QED
    BY <1>3, <2>3, <2>4 DEF ReadCache, TypeOK
<1>4. CASE ReadKeyring(r)
  <2>1. [readers[r] EXCEPT !.at = "refresh"] \in ReaderState /\ Idle \in ReaderState
    BY <1>1, <1>4 DEF ReadKeyring, ReaderState, Idle, Reading
  <2>2. QED
    BY <1>4, <2>1, FaultOK DEF ReadKeyring, TypeOK
<1>5. CASE Refresh(r)
  <2>1. Reading("answered", a, readers[r].began, now + Lifetime) \in ReaderState
    BY <1>1, <1>5 DEF Refresh, ReaderState, Idle, Reading, TypeOK
  <2>2. Idle \in ReaderState
    BY DEF ReaderState, Idle, Reading
  <2>3. readers' \in [Reader -> ReaderState]
    BY <1>5, <2>1, <2>2 DEF Refresh, TypeOK
  <2>4. QED
    BY <1>5, <2>3, FaultOK DEF Refresh, TypeOK
<1>6. CASE CacheAnswer(r)
  <2>1. /\ a \in Account /\ readers[r].token \in Nat /\ readers[r].began \in Nat
        /\ [readers[r] EXCEPT !.at = "holds"] \in ReaderState
    BY <1>1, <1>6 DEF CacheAnswer, ReaderState, Idle, Reading
  <2>2. [token |-> readers[r].token, expires |-> readers[r].began + Lifetime] \in CacheEntry
    BY <2>1 DEF CacheEntry
  <2>3. QED
    BY <1>6, <2>1, <2>2 DEF CacheAnswer, TypeOK
<1>7. CASE UseToken(r)
  <2>1. Reading("ask", a, 0, None) \in ReaderState
    BY <1>1, <1>7 DEF UseToken, ReaderState, Idle, Reading
  <2>2. Idle \in ReaderState
    BY DEF ReaderState, Idle, Reading
  <2>3. QED
    BY <1>7, <2>1, <2>2 DEF UseToken, TypeOK
<1>8. QED
  BY <1>2, <1>3, <1>4, <1>5, <1>6, <1>7 DEF Read

LEMMA TypeCalls ==
  ASSUME TypeOK, NEW a \in Account, AddAccount(a) \/ Remove(a)
  PROVE  TypeOK'
<1> USE AccountsAssumption
<1>1. CASE ExchangeCode(a)
  BY <1>1 DEF ExchangeCode, TypeOK
<1>2. CASE StoreRefreshToken(a)
  BY <1>2, FaultOK DEF StoreRefreshToken, TypeOK
<1>3. CASE PrimeCache(a)
  <2>1. [token |-> adding[a].issued + Lifetime, expires |-> now + Lifetime] \in CacheEntry
    BY DEF TypeOK, CacheEntry
  <2>2. QED
    BY <1>3, <2>1 DEF PrimeCache, TypeOK
<1>4. CASE InsertAccount(a)
  BY <1>4, FaultOK DEF InsertAccount, TypeOK
<1>5. CASE RemoveAccount(a) \/ Uncache(a)
  BY <1>5 DEF RemoveAccount, Uncache, Step, TypeOK
<1>6. CASE LookupRefreshToken(a) \/ RevokeToken(a)
  BY <1>6, FaultOK DEF LookupRefreshToken, RevokeToken, Step, TypeOK
<1>7. CASE DeleteRefreshToken(a) \/ DeleteCascade(a)
  BY <1>7, FaultOK DEF DeleteRefreshToken, DeleteCascade, Step, TypeOK
<1>8. QED
  BY <1>1, <1>2, <1>3, <1>4, <1>5, <1>6, <1>7 DEF AddAccount, AuthorizeFlow, Remove

LEMMA TypeStep == TypeOK /\ [Next]_vars => TypeOK'
<1> SUFFICES ASSUME TypeOK, [Next]_vars PROVE TypeOK'
  OBVIOUS
<1> USE AccountsAssumption DEF calls
<1>1. CASE UNCHANGED vars
  BY <1>1 DEF vars, TypeOK
<1>2. CASE Tick
  BY <1>2 DEF Tick, TypeOK
<1>3. CASE Restart
  <2>1. Idle \in ReaderState
    BY DEF ReaderState, Idle, Reading
  <2>2. QED
    BY <1>3, <2>1, FaultOK DEF Restart, TypeOK
<1>4. QED
  BY <1>1, <1>2, <1>3, TypeReaders, TypeCalls DEF Next

\* Every reachable state of accounts, keyring, cache, readers and calls is well typed.
THEOREM TypeCorrect == Spec => []TypeOK
BY TypeInit, TypeStep, PTL DEF Spec

-----------------------------------------------------------------------------
(***************************************************************************)
(* Lifetimes.  What the cache believes of a token exceeds its life by no   *)
(* more than a sign-in may take: a refresh counts from before it asked,    *)
(* cache_insert from after the keyring answered.  The refresh buffer       *)
(* covers the difference.                                                  *)
(***************************************************************************)

CacheBound == \A a \in Account :
  cache[a] # None => cache[a].expires <= cache[a].token + MaxPrompt

ReaderBound == \A r \in Reader :
  /\ readers[r].began <= now
  /\ readers[r].at = "answered" => readers[r].began + Lifetime <= readers[r].token

SignInBound == \A a \in Account :
  adding[a].at \in {"exchanged", "stored"} =>
    adding[a].issued <= now /\ now <= adding[a].issued + MaxPrompt

LifetimeInv == CacheBound /\ ReaderBound /\ SignInBound

LEMMA LifetimeInit == Init => LifetimeInv
BY AccountsAssumption DEF Init, LifetimeInv, CacheBound, ReaderBound, SignInBound, Idle, Reading

LEMMA LifetimeReaders ==
  ASSUME TypeOK, LifetimeInv, NEW r \in Reader, Read(r)
  PROVE  LifetimeInv'
<1> USE AccountsAssumption
<1> DEFINE a == readers[r].account
<1>1. readers[r] \in ReaderState /\ readers[r].began \in Nat /\ now \in Nat
  BY DEF TypeOK, ReaderState, Idle, Reading
<1>2. SignInBound'
  BY DEF LifetimeInv, SignInBound, Read, Ask, ReadCache, ReadKeyring, Refresh, CacheAnswer, UseToken
<1>3. CASE CacheAnswer(r)
  <2>1. a \in Account /\ readers[r].token \in Nat
    BY <1>1, <1>3 DEF CacheAnswer, ReaderState, Idle, Reading
  <2>2. readers[r].began + Lifetime <= readers[r].token + MaxPrompt
    BY <1>1, <1>3, <2>1 DEF CacheAnswer, LifetimeInv, ReaderBound
  <2>3. CacheBound'
    BY <1>3, <2>1, <2>2 DEF CacheAnswer, LifetimeInv, CacheBound, TypeOK
  <2>4. ReaderBound'
    BY <1>3 DEF CacheAnswer, LifetimeInv, ReaderBound, TypeOK
  <2>5. QED
    BY <1>2, <2>3, <2>4 DEF LifetimeInv
<1>4. CASE ~CacheAnswer(r)
  <2>1. UNCHANGED <<cache, now>>
    BY <1>4 DEF Read, Ask, ReadCache, ReadKeyring, Refresh, UseToken
  <2> DEFINE Moves ==
        /\ readers' = [readers EXCEPT ![r] = readers'[r]]
        /\ readers'[r].began \in {0, now, readers[r].began}
        /\ readers'[r].at = "answered" =>
             readers'[r].token = now + Lifetime /\ readers'[r].began = readers[r].began
  <2>2. Moves
    <3>1. ASSUME NEW b \in Account, Ask(r, b)
          PROVE  Moves
      BY <3>1 DEF Ask, Reading, TypeOK
    <3>2. CASE ReadCache(r)
      BY <3>2 DEF ReadCache, Reading, TypeOK
    <3>3. CASE ReadKeyring(r)
      BY <1>1, <3>3 DEF ReadKeyring, ReaderState, Reading, Idle, TypeOK
    <3>4. CASE Refresh(r)
      BY <3>4 DEF Refresh, Reading, Idle, TypeOK
    <3>5. CASE UseToken(r)
      BY <3>5 DEF UseToken, Reading, Idle, TypeOK
    <3>6. QED
      BY <1>4, <3>1, <3>2, <3>3, <3>4, <3>5 DEF Read
  <2>3. CacheBound'
    BY <2>1 DEF LifetimeInv, CacheBound
  <2>4. readers[r].began <= now
    BY DEF LifetimeInv, ReaderBound
  <2>5. ReaderBound'
    BY <1>1, <2>1, <2>2, <2>4 DEF LifetimeInv, ReaderBound, TypeOK
  <2>6. QED
    BY <1>2, <2>3, <2>5 DEF LifetimeInv
<1>5. QED
  BY <1>3, <1>4

LEMMA LifetimeCalls ==
  ASSUME TypeOK, LifetimeInv, NEW a \in Account, AddAccount(a) \/ Remove(a)
  PROVE  LifetimeInv'
<1> USE AccountsAssumption DEF LifetimeInv, TypeOK
<1>1. CASE ExchangeCode(a)
  BY <1>1 DEF ExchangeCode, CacheBound, ReaderBound, SignInBound
<1>2. CASE StoreRefreshToken(a)
  BY <1>2 DEF StoreRefreshToken, CacheBound, ReaderBound, SignInBound
<1>3. CASE PrimeCache(a)
  <2>1. now <= adding[a].issued + MaxPrompt /\ adding[a].issued \in Nat
    BY <1>3 DEF PrimeCache, SignInBound
  <2>2. CacheBound'
    BY <1>3, <2>1 DEF PrimeCache, CacheBound
  <2>3. QED
    BY <1>3, <2>2 DEF PrimeCache, ReaderBound, SignInBound
<1>4. CASE InsertAccount(a)
  BY <1>4 DEF InsertAccount, CacheBound, ReaderBound, SignInBound
<1>5. CASE Uncache(a)
  BY <1>5 DEF Uncache, CacheBound, ReaderBound, SignInBound
<1>6. CASE Remove(a) /\ ~Uncache(a)
  BY <1>6 DEF Remove, RemoveAccount, LookupRefreshToken, RevokeToken, DeleteRefreshToken,
              DeleteCascade, CacheBound, ReaderBound, SignInBound
<1>7. QED
  BY <1>1, <1>2, <1>3, <1>4, <1>5, <1>6 DEF AddAccount, AuthorizeFlow

LEMMA LifetimeStep == TypeOK /\ LifetimeInv /\ [Next]_vars => LifetimeInv'
<1> SUFFICES ASSUME TypeOK, LifetimeInv, [Next]_vars PROVE LifetimeInv'
  OBVIOUS
<1> USE AccountsAssumption DEF LifetimeInv
<1>1. CASE UNCHANGED vars
  BY <1>1 DEF vars, calls, CacheBound, ReaderBound, SignInBound
<1>2. CASE Tick
  <2>1. \A r \in Reader : readers[r].began \in Nat
    BY DEF TypeOK, ReaderState, Idle, Reading
  <2>2. QED
    BY <1>2, <2>1 DEF Tick, calls, TypeOK, CacheBound, ReaderBound, SignInBound
<1>3. CASE Restart
  BY <1>3 DEF Restart, TypeOK, CacheBound, ReaderBound, SignInBound, Idle, Reading
<1>4. QED
  BY <1>1, <1>2, <1>3, LifetimeReaders, LifetimeCalls DEF Next

\* As long as signing in takes no longer than the refresh buffer, the cache never hands
\* out a dead token, whatever the delays and the order of the answers.
THEOREM TokenAliveHolds ==
  ASSUME MaxPrompt <= Buffer
  PROVE  Spec => []TokenAlive
<1>1. TypeOK /\ LifetimeInv => TokenAlive
  <2> SUFFICES ASSUME TypeOK, LifetimeInv, NEW a \in Account, Fresh(a)
               PROVE  cache[a].token > now
    BY DEF TokenAlive
  <2>1. cache[a].token \in Nat /\ cache[a].expires \in Nat /\ now \in Nat
    BY DEF Fresh, TypeOK, CacheEntry
  <2>2. cache[a].expires <= cache[a].token + MaxPrompt /\ cache[a].expires > now + Buffer
    BY DEF Fresh, LifetimeInv, CacheBound
  <2>3. QED
    BY <2>1, <2>2, AccountsAssumption
<1>2. QED
  BY <1>1, TypeInit, TypeStep, LifetimeInit, LifetimeStep, PTL DEF Spec

-----------------------------------------------------------------------------
(***************************************************************************)
(* Listed accounts and removals.  An account's row is written after its    *)
(* refresh token, and only a removal takes the token away; a removal needs *)
(* the row, so that it never meets the add_account of the same account.    *)
(***************************************************************************)

SignedIn == \A a \in Account :
  /\ adding[a].at \in {"stored", "primed"} => a \in keyring
  /\ a \in accounts \/ removing[a] # "no" => adding[a].at = "over"

UsableInv == AccountUsable /\ SignedIn

LEMMA UsableStep == TypeOK /\ UsableInv /\ [Next]_vars => UsableInv'
<1> SUFFICES ASSUME TypeOK, UsableInv, [Next]_vars PROVE UsableInv'
  OBVIOUS
<1> USE DEF UsableInv, AccountUsable, SignedIn
<1>1. CASE UNCHANGED vars \/ Tick
  BY <1>1 DEF vars, calls, Tick
<1>2. CASE Restart
  BY <1>2 DEF Restart, TypeOK
<1>3. ASSUME NEW r \in Reader, Read(r)
      PROVE  UsableInv'
  BY <1>3 DEF Read, Ask, ReadCache, ReadKeyring, Refresh, CacheAnswer, UseToken
<1>4. ASSUME NEW a \in Account, AddAccount(a)
      PROVE  UsableInv'
  <2>1. CASE ExchangeCode(a)
    BY <2>1 DEF ExchangeCode, TypeOK
  <2>2. CASE StoreRefreshToken(a)
    BY <2>2 DEF StoreRefreshToken, TypeOK
  <2>3. CASE PrimeCache(a)
    BY <2>3 DEF PrimeCache, TypeOK
  <2>4. CASE InsertAccount(a)
    BY <2>4 DEF InsertAccount, TypeOK
  <2>5. QED
    BY <1>4, <2>1, <2>2, <2>3, <2>4 DEF AddAccount, AuthorizeFlow
<1>5. ASSUME NEW a \in Account, Remove(a)
      PROVE  UsableInv'
  <2>1. CASE RemoveAccount(a)
    BY <2>1 DEF RemoveAccount, Step, TypeOK
  <2>2. CASE LookupRefreshToken(a) \/ RevokeToken(a) \/ Uncache(a)
    BY <2>2 DEF LookupRefreshToken, RevokeToken, Uncache, Step, TypeOK
  <2>3. CASE DeleteRefreshToken(a)
    BY <2>3 DEF DeleteRefreshToken, Step, TypeOK
  <2>4. CASE DeleteCascade(a)
    BY <2>4 DEF DeleteCascade, Step, TypeOK
  <2>5. QED
    BY <1>5, <2>1, <2>2, <2>3, <2>4 DEF Remove
<1>6. QED
  BY <1>1, <1>2, <1>3, <1>4, <1>5 DEF Next

\* A listed account has its refresh token in the keyring, or a removal has begun on it.
THEOREM AccountUsableHolds == Spec => []AccountUsable
<1>1. Init => UsableInv
  BY DEF Init, UsableInv, AccountUsable, SignedIn
<1>2. UsableInv => AccountUsable
  BY DEF UsableInv
<1>3. QED
  BY <1>1, <1>2, TypeInit, TypeStep, UsableStep, PTL DEF Spec

\* Nothing can bring back the tokens of an account that was forgotten.
ForgottenInv == \A a \in forgotten :
  a \notin keyring /\ cache[a] = None /\ ~Refreshing(a) /\ adding[a].at = "over"

LEMMA ForgottenStep == TypeOK /\ UsableInv /\ ForgottenInv /\ [Next]_vars => ForgottenInv'
<1> SUFFICES ASSUME TypeOK, UsableInv, ForgottenInv, [Next]_vars PROVE ForgottenInv'
  OBVIOUS
<1> USE DEF ForgottenInv, Refreshing
<1>1. CASE UNCHANGED vars \/ Tick
  BY <1>1 DEF vars, calls, Tick
<1>2. CASE Restart
  BY <1>2 DEF Restart, Idle, Reading, TypeOK
<1>3. ASSUME NEW r \in Reader, Read(r)
      PROVE  ForgottenInv'
  <2>1. UNCHANGED <<keyring, adding, forgotten>>
    BY <1>3 DEF Read, Ask, ReadCache, ReadKeyring, Refresh, CacheAnswer, UseToken
  <2>2. readers[r] \in ReaderState
    BY DEF TypeOK
  <2>3. /\ \A q \in Reader \ {r} : readers'[q] = readers[q]
        /\ readers'[r].at \in {"refresh", "answered"} =>
             /\ readers'[r].account = readers[r].account
             /\ \/ readers[r].account \in keyring
                \/ readers[r].at \in {"refresh", "answered"}
    <3>1. CASE ReadCache(r) \/ UseToken(r) \/ \E a \in Account : Ask(r, a)
      BY <3>1 DEF ReadCache, UseToken, Ask, Reading, Idle, TypeOK
    <3>2. CASE ReadKeyring(r)
      BY <2>2, <3>2 DEF ReadKeyring, ReaderState, Reading, Idle, TypeOK
    <3>3. CASE Refresh(r)
      BY <3>3 DEF Refresh, Reading, Idle, TypeOK
    <3>4. CASE CacheAnswer(r)
      BY <2>2, <3>4 DEF CacheAnswer, ReaderState, Reading, Idle, TypeOK
    <3>5. QED
      BY <1>3, <3>1, <3>2, <3>3, <3>4 DEF Read
  <2>4. ASSUME NEW a \in forgotten
        PROVE  cache'[a] = cache[a]
    <3>1. CASE CacheAnswer(r)
      BY <3>1 DEF CacheAnswer, TypeOK
    <3>2. CASE ~CacheAnswer(r)
      BY <1>3, <3>2 DEF Read, Ask, ReadCache, ReadKeyring, Refresh, UseToken
    <3>3. QED
      BY <3>1, <3>2
  <2>5. \A a \in forgotten : ~Refreshing(a)'
    BY <2>3
  <2>6. QED
    BY <2>1, <2>4, <2>5
<1>4. ASSUME NEW a \in Account, AddAccount(a)
      PROVE  ForgottenInv'
  <2>1. a \notin forgotten
    BY <1>4 DEF AddAccount, AuthorizeFlow, ExchangeCode, StoreRefreshToken, PrimeCache, InsertAccount
  <2>2. CASE ExchangeCode(a) \/ InsertAccount(a)
    BY <2>1, <2>2 DEF ExchangeCode, InsertAccount, TypeOK
  <2>3. CASE StoreRefreshToken(a) \/ PrimeCache(a)
    BY <2>1, <2>3 DEF StoreRefreshToken, PrimeCache, TypeOK
  <2>4. QED
    BY <1>4, <2>2, <2>3 DEF AddAccount, AuthorizeFlow
<1>5. ASSUME NEW a \in Account, Remove(a)
      PROVE  ForgottenInv'
  <2>1. CASE Uncache(a)
    BY <2>1 DEF Uncache, Step, TypeOK, UsableInv, SignedIn
  <2>2. CASE RemoveAccount(a) \/ LookupRefreshToken(a) \/ RevokeToken(a)
    BY <2>2 DEF RemoveAccount, LookupRefreshToken, RevokeToken
  <2>3. CASE DeleteRefreshToken(a) \/ DeleteCascade(a)
    BY <2>3 DEF DeleteRefreshToken, DeleteCascade
  <2>4. QED
    BY <1>5, <2>1, <2>2, <2>3 DEF Remove
<1>6. QED
  BY <1>1, <1>2, <1>3, <1>4, <1>5 DEF Next

\* A removal stands: once keyring and cache are emptied and no refresh was under way, no
\* reader gets a token of the account again.
THEOREM RemovalStandsHolds == Spec => RemovalStands
<1> DEFINE Stands == \A r \in Reader :
      readers[r].at # "holds" /\ readers'[r].at = "holds" => readers'[r].account \notin forgotten
<1>1. Init => UsableInv /\ ForgottenInv
  BY DEF Init, UsableInv, AccountUsable, SignedIn, ForgottenInv
<1>2. TypeOK /\ ForgottenInv /\ [Next]_vars => Stands
  <2> SUFFICES ASSUME TypeOK, ForgottenInv, [Next]_vars, NEW r \in Reader,
                      readers[r].at # "holds", readers'[r].at = "holds"
               PROVE  readers'[r].account \notin forgotten
    OBVIOUS
  <2>1. readers[r] \in ReaderState
    BY DEF TypeOK
  <2>2. ReadCache(r) \/ CacheAnswer(r)
    <3>1. CASE UNCHANGED readers
      BY <3>1
    <3>2. CASE Restart
      BY <3>2 DEF Restart, Idle, Reading
    <3>3. ASSUME NEW q \in Reader, Read(q)
          PROVE  ReadCache(r) \/ CacheAnswer(r)
      <4>1. CASE ReadCache(q) \/ CacheAnswer(q)
        BY <4>1 DEF ReadCache, CacheAnswer, TypeOK
      <4>2. CASE UseToken(q) \/ \E a \in Account : Ask(q, a)
        BY <4>2 DEF UseToken, Ask, Reading, Idle, TypeOK
      <4>3. CASE ReadKeyring(q)
        <5>1. readers[q] \in ReaderState
          BY DEF TypeOK
        <5>2. QED
          BY <4>3, <5>1 DEF ReadKeyring, ReaderState, Reading, Idle, TypeOK
      <4>4. CASE Refresh(q)
        BY <4>4 DEF Refresh, Reading, Idle, TypeOK
      <4>5. QED
        BY <3>3, <4>1, <4>2, <4>3, <4>4 DEF Read
    <3>4. ASSUME NEW a \in Account, AddAccount(a) \/ Remove(a)
          PROVE  UNCHANGED readers
      BY <3>4 DEF AddAccount, AuthorizeFlow, Remove, ExchangeCode, StoreRefreshToken, PrimeCache,
                  InsertAccount, RemoveAccount, LookupRefreshToken, RevokeToken,
                  DeleteRefreshToken, Uncache, DeleteCascade
    <3>5. QED
      BY <3>1, <3>2, <3>3, <3>4 DEF Next, vars, calls, Tick
  <2>3. CASE ReadCache(r)
    BY <2>3 DEF ReadCache, Fresh, ForgottenInv, Reading, TypeOK
  <2>4. CASE CacheAnswer(r)
    BY <2>1, <2>4 DEF CacheAnswer, ForgottenInv, Refreshing, ReaderState, Idle, Reading, TypeOK
  <2>5. QED
    BY <2>2, <2>3, <2>4
<1>3. QED
  BY <1>1, <1>2, TypeInit, TypeStep, UsableStep, ForgottenStep, PTL DEF Spec, RemovalStands
=============================================================================
