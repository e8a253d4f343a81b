-------------------------- MODULE EntraPoolProofs --------------------------
(* Proofs about EntraPool, for any settings, token lifetimes and pool size. *)
EXTENDS EntraPool, TLAPS

LEMMA InitInv == Init => PoolInv
  BY DEF Init, PoolInv, TypeOK, States, Fresh

\* Every step keeps the types.
LEMMA NextType == PoolInv /\ [Next]_vars => TypeOK'
  <1>. SUFFICES ASSUME PoolInv, [Next]_vars PROVE TypeOK'
    OBVIOUS
  <1>. USE DEF PoolInv, TypeOK, Go, States
  <1>1. CASE Tick
    BY <1>1 DEF Tick
  <1>2. ASSUME NEW s \in Slots, CheckOut(s) \/ CheckOutNew(s) \/ CheckIn(s) PROVE TypeOK'
    BY <1>2 DEF CheckOut, CheckOutNew, CheckIn
  <1>3. ASSUME NEW s \in Slots, Open(s) PROVE TypeOK'
    <2>1. cached' \in Nat
      BY <1>3, SettingsAssumption DEF Open
    <2>. QED
      BY <1>3, <2>1 DEF Open
  <1>4. ASSUME NEW s \in Slots, PingFails(s) \/ GuardRefuses(s) PROVE TypeOK'
    BY <1>4 DEF PingFails, GuardRefuses
  <1>5. ASSUME NEW s \in Slots,
               \/ CredentialFails(s) \/ Login(s) \/ LoginWithExpiredToken(s)
               \/ LoginFails(s) \/ GuardPasses(s) \/ GiveUp(s)
        PROVE  TypeOK'
    BY <1>5 DEF CredentialFails, Login, LoginWithExpiredToken, LoginFails, GuardPasses, GiveUp
  <1>6. CASE UNCHANGED vars
    BY <1>6 DEF vars
  <1>. QED
    BY <1>1, <1>2, <1>3, <1>4, <1>5, <1>6 DEF Next, SlotStep, CheckoutStep

\* A checkout has both its attempts while it pings a pooled connection.
LEMMA NextPinging ==
    PoolInv /\ [Next]_vars => (\A s \in Slots : state[s] = "pinging" => tries[s] = 2)'
  BY DEF PoolInv, TypeOK, Go, Next, vars, SlotStep, CheckoutStep, Tick, CheckOut, CheckOutNew,
         CheckIn, Open, CredentialFails, Login, LoginWithExpiredToken, LoginFails,
         PingFails, GuardPasses, GuardRefuses, GiveUp

\* Where the skew covers the guard, every replacement stays fresh.
LEMMA NextFresh ==
    ASSUME PoolInv, [Next]_vars, SkewCoversGuard, NEW t \in Slots
    PROVE  Fresh(t)'
  <1>. USE SettingsAssumption DEF PoolInv, TypeOK, Go, Fresh
  <1>1. CASE Tick
    BY <1>1 DEF Tick
  <1>2. ASSUME NEW s \in Slots, CheckOut(s) \/ CheckOutNew(s) \/ CheckIn(s) PROVE Fresh(t)'
    BY <1>2 DEF CheckOut, CheckOutNew, CheckIn
  <1>3. ASSUME NEW s \in Slots, Open(s) PROVE Fresh(t)'
    <2>1. cached' \in Nat /\ cached' > now + MaxLogin + Guard
      <3>1. RefreshSkew \in Int /\ RefreshSkew >= Guard + MaxLogin
        BY DEF SkewCoversGuard, RefreshSkew, Larger
      <3>2. CASE Reusable /\ cached' = cached
        BY <3>1, <3>2 DEF Reusable
      <3>3. ASSUME NEW l \in Lifetimes, cached' = now + l
            PROVE  cached' \in Nat /\ cached' > now + MaxLogin + Guard
        BY <3>3 DEF SkewCoversGuard
      <3>. QED
        BY <1>3, <3>2, <3>3 DEF Open
    <2>. QED
      BY <1>3, <2>1 DEF Open
  <1>4. ASSUME NEW s \in Slots, PingFails(s) PROVE Fresh(t)'
    BY <1>4 DEF PingFails
  <1>5. ASSUME NEW s \in Slots, GuardRefuses(s) PROVE Fresh(t)'
    BY <1>5 DEF GuardRefuses, NearExpiry
  <1>6. ASSUME NEW s \in Slots, LoginWithExpiredToken(s) PROVE FALSE
    BY <1>6 DEF LoginWithExpiredToken
  <1>7. ASSUME NEW s \in Slots, GiveUp(s) PROVE FALSE
    BY <1>7 DEF GiveUp
  <1>8. ASSUME NEW s \in Slots,
               CredentialFails(s) \/ Login(s) \/ LoginFails(s) \/ GuardPasses(s)
        PROVE  Fresh(t)'
    BY <1>8 DEF CredentialFails, Login, LoginFails, GuardPasses
  <1>9. CASE UNCHANGED vars
    BY <1>9 DEF vars
  <1>. QED
    BY <1>1, <1>2, <1>3, <1>4, <1>5, <1>6, <1>7, <1>8, <1>9 DEF Next, SlotStep, CheckoutStep

LEMMA NextInv == PoolInv /\ [Next]_vars => PoolInv'
  <1>1. ASSUME PoolInv, [Next]_vars PROVE (SkewCoversGuard => \A s \in Slots : Fresh(s))'
    <2>1. skew' = skew
      BY <1>1 DEF Next, vars, SlotStep, CheckoutStep, Tick, CheckOut, CheckOutNew,
                  CheckIn, Open, CredentialFails, Login, LoginWithExpiredToken,
                  LoginFails, PingFails, GuardPasses, GuardRefuses, GiveUp
    <2>. QED
      BY <1>1, <2>1, NextFresh DEF SkewCoversGuard, RefreshSkew
  <1>. QED
    BY NextType, NextPinging, <1>1 DEF PoolInv

\* In any order of expiries, failures and recycling, the listeners of
\* app/core/database.py leave slots and tokens in step.
THEOREM Inductive == Spec => []PoolInv
  BY InitInv, NextInv, PTL DEF Spec

\* Every variable keeps its type; the attempts of a checkout never go below 0.
THEOREM TypeCorrect == Spec => []TypeOK
  <1>1. PoolInv => TypeOK
    BY DEF PoolInv
  <1>. QED
    BY InitInv, NextInv, <1>1, PTL DEF Spec

\* With a refresh skew of at least the guard and the longest login, no request
\* is refused a connection because of its token, for any pool and any clock.
THEOREM TokensNeverRefuse == Spec => []NoRefusal
  <1>1. PoolInv => NoRefusal
    BY DEF PoolInv, NoRefusal, Fresh
  <1>. QED
    BY InitInv, NextInv, <1>1, PTL DEF Spec

\* What a step of one checkout leaves to the others.
LEMMA OthersKeepTheirSteps ==
    ASSUME PoolInv, NEW s \in Slots, SlotStep(s), NEW t \in Slots \ {s}, state[t] \in Underway
    PROVE  StepsLeft(t)' = StepsLeft(t) /\ state'[t] = state[t]
  <1>1. state'[t] = state[t] /\ tries'[t] = tries[t]
    BY DEF PoolInv, TypeOK, Underway, Go, SlotStep, CheckoutStep, CheckOut, CheckOutNew, CheckIn,
           Open, CredentialFails, Login, LoginWithExpiredToken, LoginFails, PingFails,
           GuardPasses, GuardRefuses, GiveUp
  <1>. QED
    BY <1>1 DEF StepsLeft

\* The step of a checkout itself.
LEMMA OneStepLess ==
    ASSUME PoolInv, NEW s \in Slots, SlotStep(s), state[s] \in Underway
    PROVE  StepsLeft(s)' < StepsLeft(s)
  <1>. USE DEF PoolInv, TypeOK, Go, StepsLeft, StagesLeft, Underway
  <1>1. CASE Open(s) \/ Login(s)
    BY <1>1 DEF Open, Login
  <1>2. CASE \/ CredentialFails(s) \/ LoginWithExpiredToken(s) \/ LoginFails(s)
             \/ GuardPasses(s) \/ GiveUp(s)
    BY <1>2 DEF CredentialFails, LoginWithExpiredToken, LoginFails, GuardPasses, GiveUp
  <1>3. CASE PingFails(s)
    BY <1>3 DEF PingFails
  <1>4. CASE GuardRefuses(s)
    BY <1>4 DEF GuardRefuses
  <1>5. ~ (CheckOut(s) \/ CheckOutNew(s) \/ CheckIn(s))
    BY DEF CheckOut, CheckOutNew, CheckIn
  <1>. QED
    BY <1>1, <1>2, <1>3, <1>4, <1>5 DEF SlotStep, CheckoutStep

\* A checkout takes eleven steps at most, for any settings, tokens and other
\* checkouts: what expires, fails or is recycled cannot make it reconnect again
\* and again.
THEOREM CheckoutsAreShort == Spec => CheckoutsGetNearer
  <1>1. ASSUME PoolInv, [Next]_vars, NEW t \in Slots, state[t] \in Underway
        PROVE  Nearer(t)
    <2>1. StepsLeft(t) \in Int
      BY <1>1 DEF PoolInv, TypeOK, StepsLeft, StagesLeft
    <2>2. CASE UNCHANGED <<state, tries>>
      BY <2>1, <2>2 DEF StepsLeft, Nearer
    <2>3. ASSUME NEW s \in Slots, SlotStep(s), s # t PROVE Nearer(t)
      BY <1>1, <2>1, <2>3, OthersKeepTheirSteps DEF Nearer
    <2>4. CASE SlotStep(t)
      <3>1. StepsLeft(t)' \in Int
        BY <1>1, NextInv DEF PoolInv, TypeOK, StepsLeft, StagesLeft
      <3>. QED
        BY <1>1, <2>1, <2>4, <3>1, OneStepLess DEF Nearer
    <2>. QED
      BY <1>1, <2>2, <2>3, <2>4 DEF Next, Tick, vars
  <1>2. PoolInv /\ [Next]_vars
          => [\A s \in Slots : state[s] \in Underway => Nearer(s)]_vars
    BY <1>1
  <1>. QED
    BY <1>2, InitInv, NextInv, PTL DEF Spec, CheckoutsGetNearer
=============================================================================
