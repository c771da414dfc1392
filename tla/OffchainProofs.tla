--------------------------- MODULE OffchainProofs ---------------------------
(***************************************************************************)
(* Theorems about the processes beside the program.  The settlement crank: *)
(* no vault is skipped that has money for anybody, nor remembered with an  *)
(* order, a listing or a pool writer left, for any vaults, accounts,       *)
(* restarts and failures.  The event tape: the cursor never moves over     *)
(* work not looked at, for every history, page and batch size and any      *)
(* number of crashes.  The trigger keeper: on whatever it believed, it     *)
(* does nothing that Triggers does not allow to anybody.                   *)
(***************************************************************************)
EXTENDS MCOffchain, TriggersProofs, FiniteSetTheorems, TLAPS

USE DEF CrankAssumption

LEMMA CrankConstants ==
    /\ Vaults \subseteq Nat
    /\ Dues \in [Vaults -> SUBSET Accounts]
    /\ Collateral \in [Vaults -> SUBSET Owners]
    /\ MaxRestarts \in Nat
  BY CrankAssumption

-----------------------------------------------------------------------------
(* The invariant. *)

\* The passes that the sweep has behind it, by the one that comes next.
Behind(p) ==
    CASE p = "orders" -> {"listing"}
      [] p \in {"holders", "writers"} -> {"listing", "ask", "bid"}
      [] OTHER -> {}

\* What those passes found to be gone is gone.
LookedAt ==
    \A v \in todo :
        clean /\ v = Oldest(todo) => owed[v] \cap Behind(pass) = {}

\* The sweep is over settled vaults, and those with money left had it when the
\* sweep began.
SweepInv ==
    /\ todo \subseteq Settled
    /\ \A v \in todo : left[v] # {} => v \in funded

CrankInv == CrankTypeOK /\ SweepInv /\ LookedAt /\ FinishedOwesNothing

\* What a step may do to the accounts: nothing becomes due but tokens that go
\* home, no money comes in, and a settled vault stays settled.
Dwindles ==
    /\ stage' \in [Vaults -> {"expired", "recorded", "settled"}]
    /\ owed' \in [Vaults -> SUBSET Accounts]
    /\ left' \in [Vaults -> SUBSET Owners]
    /\ windowOver' \subseteq Vaults
    /\ Settled \subseteq Settled'
    /\ \A v \in Vaults : /\ owed'[v] \subseteq owed[v] \cup {"holder"}
                         /\ left[v] = {} => left'[v] = {}

LEMMA ChainUnchanged ==
    ASSUME CrankTypeOK, UNCHANGED chainVars
    PROVE  Dwindles
  BY DEF CrankTypeOK, chainVars, Dwindles, Settled

LEMMA StageAdvances ==
    ASSUME CrankTypeOK, NEW v \in Vaults, stage[v] # "settled",
           \E s \in {"recorded", "settled"} : stage' = [stage EXCEPT ![v] = s],
           UNCHANGED <<owed, left, windowOver>>
    PROVE  Dwindles
  <1>1. PICK s \in {"recorded", "settled"} : stage' = [stage EXCEPT ![v] = s]
    OBVIOUS
  <1>2. stage' \in [Vaults -> {"expired", "recorded", "settled"}]
    BY <1>1 DEF CrankTypeOK
  <1>3. Settled \subseteq Settled'
    BY <1>1 DEF CrankTypeOK, Settled
  <1>4. QED
    BY <1>2, <1>3 DEF CrankTypeOK, Dwindles

LEMMA RemainsOfMoney ==
    ASSUME NEW money \in SUBSET Owners, NEW a \in {"holder", "writer", "backer"},
           NEW accounts, NEW rest \in Remains(money, a, accounts)
    PROVE  rest \in SUBSET Owners /\ (money = {} => rest = {})
  <1>1. CASE a = "holder"
    BY <1>1 DEF Remains, HoldersLeave
  <1>2. CASE a = "writer"
    BY <1>2 DEF Remains, WritersLeave, Owners
  <1>3. CASE a = "backer"
    BY <1>3 DEF Remains, BackersLeave, Owners
  <1>4. QED
    BY <1>1, <1>2, <1>3

LEMMA PayDwindles ==
    ASSUME CrankTypeOK, NEW v \in Vaults, NEW a \in {"holder", "writer", "backer"},
           Pay(v, a), UNCHANGED <<stage, windowOver>>
    PROVE  Dwindles
  <1>1. PICK money \in Remains(left[v], a, owed[v]) :
            left' = [left EXCEPT ![v] = money]
    BY DEF Pay
  <1>2. owed' = [owed EXCEPT ![v] = owed[v] \ {a}]
    BY DEF Pay
  <1>3. money \in SUBSET Owners /\ (left[v] = {} => money = {})
    BY <1>1, RemainsOfMoney DEF CrankTypeOK
  <1>4. owed' \in [Vaults -> SUBSET Accounts] /\ left' \in [Vaults -> SUBSET Owners]
    BY <1>1, <1>2, <1>3 DEF CrankTypeOK
  <1>5. ASSUME NEW u \in Vaults
        PROVE  /\ owed'[u] \subseteq owed[u] \cup {"holder"}
               /\ left[u] = {} => left'[u] = {}
    <2>1. CASE u = v
      BY <1>1, <1>2, <1>3, <2>1 DEF CrankTypeOK
    <2>2. CASE u # v
      BY <1>1, <1>2, <2>2 DEF CrankTypeOK
    <2>3. QED
      BY <2>1, <2>2
  <1>6. QED
    BY <1>4, <1>5 DEF CrankTypeOK, Dwindles, Settled

LEMMA DischargeDwindles ==
    ASSUME CrankTypeOK, NEW v \in Vaults, NEW items \in SUBSET Accounts,
           Discharge(v, items),
           UNCHANGED <<stage, left, windowOver>>
    PROVE  Dwindles
  <1> DEFINE home == IF items \cap {"listing", "ask"} # {} THEN {"holder"} ELSE {}
  <1>1. owed' = [owed EXCEPT ![v] = (owed[v] \ items) \cup home]
    BY DEF Discharge
  <1>2. home \subseteq {"holder"}
    OBVIOUS
  <1> HIDE DEF home
  <1>3. owed' \in [Vaults -> SUBSET Accounts]
    BY <1>1, <1>2 DEF CrankTypeOK, Accounts
  <1>4. ASSUME NEW u \in Vaults
        PROVE  owed'[u] \subseteq owed[u] \cup {"holder"}
    <2>1. CASE u = v
      BY <1>1, <1>2, <2>1 DEF CrankTypeOK
    <2>2. CASE u # v
      BY <1>1, <2>2 DEF CrankTypeOK
    <2>3. QED
      BY <2>1, <2>2
  <1>5. QED
    BY <1>3, <1>4 DEF CrankTypeOK, Dwindles, Settled

-----------------------------------------------------------------------------
(* What follows for the parts of the invariant.                            *)

SweepTypes ==
    /\ finished' \subseteq Vaults /\ file' \subseteq Vaults
    /\ todo' \subseteq Vaults /\ funded' \subseteq Vaults
    /\ pass' \in {"settle", "vault", "listings", "orders", "holders", "writers"}
    /\ clean' \in BOOLEAN

LEMMA TypesKept ==
    ASSUME Dwindles, SweepTypes
    PROVE  CrankTypeOK'
  BY DEF Dwindles, SweepTypes, CrankTypeOK

LEMMA SweepKept ==
    ASSUME CrankInv, Dwindles, todo' \subseteq todo, funded' = funded
    PROVE  SweepInv'
  <1>1. todo' \subseteq Settled'
    BY DEF CrankInv, SweepInv, Dwindles
  <1>2. \A v \in todo' : left'[v] # {} => v \in funded'
    BY DEF CrankInv, CrankTypeOK, SweepInv, Dwindles
  <1>3. QED
    BY <1>1, <1>2 DEF SweepInv

LEMMA FinishedKept ==
    ASSUME CrankInv, Dwindles, SweepInv',
           finished' \subseteq finished \cup file, file' \subseteq finished \cup file
    PROVE  FinishedOwesNothing'
  <1>1. ASSUME NEW v \in finished' \cup file'
        PROVE  v \in Settled' /\ owed'[v] \subseteq {"holder", "backer"}
    <2>1. v \in Settled /\ owed[v] \subseteq {"holder", "backer"}
      BY DEF CrankInv, FinishedOwesNothing
    <2>2. v \in Vaults
      BY <2>1 DEF Settled
    <2>3. owed'[v] \subseteq owed[v] \cup {"holder"} /\ Settled \subseteq Settled'
      BY <2>2 DEF Dwindles
    <2>4. QED
      BY <2>1, <2>3
  <1>2. \A v \in todo' : MaySuppress(v)' => left'[v] = {}
    BY DEF SweepInv, MaySuppress
  <1>3. QED
    BY <1>1, <1>2 DEF FinishedOwesNothing

\* Nothing but the accounts moves.
LEMMA AccountsMove ==
    ASSUME CrankInv, Dwindles, UNCHANGED <<cacheVars, sweepVars>>
    PROVE  CrankInv'
  <1>1. UNCHANGED <<finished, file, todo, funded, pass, clean>>
    BY DEF cacheVars, sweepVars
  <1>2. SweepTypes
    BY <1>1 DEF CrankInv, CrankTypeOK, SweepTypes
  <1>3. LookedAt'
    <2> SUFFICES ASSUME NEW v \in todo, clean, v = Oldest(todo)
                 PROVE  owed'[v] \cap Behind(pass) = {}
      BY <1>1 DEF LookedAt, Behind
    <2>1. owed[v] \cap Behind(pass) = {} /\ v \in Vaults
      BY DEF CrankInv, CrankTypeOK, LookedAt
    <2>2. owed'[v] \subseteq owed[v] \cup {"holder"}
      BY <2>1 DEF Dwindles
    <2>3. "holder" \notin Behind(pass)
      BY DEF Behind
    <2>4. QED
      BY <2>1, <2>2, <2>3
  <1>4. CrankTypeOK' /\ SweepInv' /\ FinishedOwesNothing'
    BY <1>1, <1>2, TypesKept, SweepKept, FinishedKept
  <1>5. QED
    BY <1>3, <1>4 DEF CrankInv

\* The sweep leaves a vault behind.
LEMMA VaultLeft ==
    ASSUME CrankInv, Dwindles, NEW v \in Vaults, NextVault(v), UNCHANGED cacheVars
    PROVE  CrankInv'
  <1>1. /\ todo' \subseteq todo /\ clean' = FALSE /\ pass' = "vault"
        /\ UNCHANGED <<finished, file, funded>>
    BY DEF NextVault, cacheVars
  <1>2. SweepTypes
    BY <1>1 DEF CrankInv, CrankTypeOK, SweepTypes
  <1>3. LookedAt'
    BY <1>1 DEF LookedAt
  <1>4. CrankTypeOK' /\ SweepInv' /\ FinishedOwesNothing'
    BY <1>1, <1>2, TypesKept, SweepKept, FinishedKept
  <1>5. QED
    BY <1>3, <1>4 DEF CrankInv

\* A pass over a vault is done: it is clean if it was and the scan found nothing.
LEMMA PassDone ==
    ASSUME CrankInv, Dwindles, NEW v \in Vaults, At(v, pass),
           pass' \in {"listings", "orders", "holders", "writers"},
           clean' \in BOOLEAN,
           clean' => owed[v] \cap Behind(pass)' = {},
           UNCHANGED <<todo, funded, cacheVars>>
    PROVE  CrankInv'
  <1>1. UNCHANGED <<finished, file, todo, funded>> /\ v = Oldest(todo)
    BY DEF cacheVars, At
  <1>2. SweepTypes
    BY <1>1 DEF CrankInv, CrankTypeOK, SweepTypes
  <1>3. LookedAt'
    <2> SUFFICES ASSUME clean'
                 PROVE  owed'[v] \cap Behind(pass)' = {}
      BY <1>1 DEF LookedAt
    <2>1. owed'[v] \subseteq owed[v] \cup {"holder"}
      BY DEF Dwindles
    <2>2. "holder" \notin Behind(pass)'
      BY DEF Behind
    <2>3. QED
      BY <2>1, <2>2
  <1>4. CrankTypeOK' /\ SweepInv' /\ FinishedOwesNothing'
    BY <1>1, <1>2, TypesKept, SweepKept, FinishedKept
  <1>5. QED
    BY <1>3, <1>4 DEF CrankInv

-----------------------------------------------------------------------------
(* The steps. *)

LEMMA CrankInitEstablishes == CrankInit => CrankInv
  <1> SUFFICES ASSUME CrankInit PROVE CrankInv
    OBVIOUS
  <1>1. CrankTypeOK
    BY CrankConstants DEF CrankInit, CrankTypeOK
  <1>2. SweepInv /\ LookedAt /\ FinishedOwesNothing
    BY CrankConstants DEF CrankInit, SweepInv, LookedAt, FinishedOwesNothing
  <1>3. QED
    BY <1>1, <1>2 DEF CrankInv

LEMMA OthersKeep ==
    ASSUME CrankInv, NEW v \in Vaults,
           \/ SomebodySettles(v) \/ SomebodyCloses(v) \/ WindowEnds(v)
           \/ RecordPrice(v) \/ Fanout(v)
    PROVE  CrankInv'
  <1>1. CrankTypeOK
    BY DEF CrankInv
  <1>2. CASE SomebodySettles(v)
    <2>1. Dwindles
      BY <1>1, <1>2, StageAdvances DEF SomebodySettles
    <2>2. QED
      BY <1>2, <2>1, AccountsMove DEF SomebodySettles
  <1>3. CASE SomebodyCloses(v)
    <2>1. PICK item \in owed[v] :
              IF item \in {"holder", "writer", "backer"} THEN Pay(v, item)
              ELSE Discharge(v, {item}) /\ UNCHANGED left
      BY <1>3 DEF SomebodyCloses
    <2>2. item \in Accounts /\ UNCHANGED <<stage, windowOver>>
      BY <1>1, <1>3, <2>1 DEF CrankTypeOK, SomebodyCloses
    <2>3. Dwindles
      BY <1>1, <2>1, <2>2, PayDwindles, DischargeDwindles
    <2>4. QED
      BY <1>3, <2>3, AccountsMove DEF SomebodyCloses
  <1>4. CASE WindowEnds(v)
    <2>1. Dwindles
      BY <1>1, <1>4 DEF WindowEnds, CrankTypeOK, Dwindles, Settled
    <2>2. QED
      BY <1>4, <2>1, AccountsMove DEF WindowEnds
  <1>5. CASE RecordPrice(v) \/ Fanout(v)
    <2>1. stage[v] # "settled"
      BY <1>5 DEF RecordPrice, Fanout, Eligible
    <2>2. Dwindles
      BY <1>1, <1>5, <2>1, StageAdvances DEF RecordPrice, Fanout
    <2>3. QED
      BY <1>5, <2>2, AccountsMove DEF RecordPrice, Fanout
  <1>6. QED
    BY <1>2, <1>3, <1>4, <1>5

LEMMA PassesKeep ==
    ASSUME CrankInv, NEW v \in Vaults,
           \/ OpenVault(v)
           \/ \E p \in {"listings", "orders"} : ReturnPass(v, p) \/ ReturnCrash(v, p)
           \/ PayHolders(v) \/ HoldersFail(v) \/ HoldersUnseen(v)
    PROVE  CrankInv'
  <1>1. CrankTypeOK /\ LookedAt /\ clean \in BOOLEAN
    BY DEF CrankInv, CrankTypeOK
  <1>2. ASSUME NEW p, At(v, p), clean
        PROVE  owed[v] \cap Behind(p) = {}
    BY <1>1, <1>2 DEF At, LookedAt
  <1>3. CASE OpenVault(v)
    <2>1. Dwindles /\ At(v, pass)
      BY <1>1, <1>3, ChainUnchanged DEF OpenVault, At
    <2>2. pass' = "listings" /\ clean' = TRUE /\ UNCHANGED <<todo, funded, cacheVars>>
      BY <1>3 DEF OpenVault
    <2>3. Behind(pass)' = {}
      BY <2>2 DEF Behind
    <2>4. QED
      BY <2>1, <2>2, <2>3, PassDone
  <1>4. ASSUME NEW p \in {"listings", "orders"}, ReturnPass(v, p)
        PROVE  CrankInv'
    <2>1. PICK items \in SUBSET (owed[v] \cap Returned(p)) : Discharge(v, items)
      BY <1>4 DEF ReturnPass
    <2>2. items \in SUBSET Accounts /\ "writer" \notin items
      BY <1>1, <2>1 DEF CrankTypeOK, Returned
    <2>3. Dwindles
      BY <1>1, <1>4, <2>1, <2>2, DischargeDwindles DEF ReturnPass
    <2>4. /\ At(v, p) /\ pass = p /\ pass' = After(p)
          /\ clean' = (clean /\ owed[v] \cap Returned(p) = {})
          /\ UNCHANGED <<todo, funded, cacheVars>>
      BY <1>4 DEF ReturnPass, Found, At
    <2>5. pass' \in {"orders", "holders"} /\ Behind(pass)' = Behind(p) \cup Returned(p)
      BY <2>4 DEF After, Behind, Returned
    <2>6. clean' \in BOOLEAN
      BY <2>4
    <2>7. clean' => owed[v] \cap Behind(pass)' = {}
      BY <1>2, <2>4, <2>5
    <2>8. QED
      BY <2>3, <2>4, <2>5, <2>6, <2>7, PassDone
  <1>5. ASSUME NEW p \in {"listings", "orders"}, ReturnCrash(v, p)
        PROVE  CrankInv'
    <2>1. Dwindles /\ At(v, pass)
      BY <1>1, <1>5, ChainUnchanged DEF ReturnCrash, At
    <2>2. /\ pass' \in {"orders", "holders"} /\ clean' = FALSE
          /\ UNCHANGED <<todo, funded, cacheVars>>
      BY <1>5 DEF ReturnCrash, After
    <2>3. QED
      BY <2>1, <2>2, PassDone
  <1>6. CASE PayHolders(v) \/ HoldersFail(v) \/ HoldersUnseen(v)
    <2>1. /\ At(v, "holders") /\ pass = "holders" /\ pass' = "writers"
          /\ clean' \in {clean, clean /\ owed[v] \cap {"holder"} = {}}
          /\ UNCHANGED <<todo, funded, cacheVars>>
      BY <1>6 DEF PayHolders, HoldersFail, HoldersUnseen, Found, At
    <2>2. Dwindles
      <3>1. CASE UNCHANGED chainVars
        BY <1>1, <3>1, ChainUnchanged
      <3>2. CASE Pay(v, "holder") /\ UNCHANGED <<stage, windowOver>>
        BY <1>1, <3>2, PayDwindles
      <3>3. QED
        BY <1>6, <3>1, <3>2 DEF PayHolders, HoldersFail, HoldersUnseen, chainVars
    <2>3. clean' \in BOOLEAN /\ (clean' => clean)
      BY <1>1, <2>1
    <2>4. Behind(pass)' = Behind("holders")
      BY <2>1 DEF Behind
    <2>5. clean' => owed[v] \cap Behind(pass)' = {}
      BY <1>2, <2>1, <2>3, <2>4
    <2>6. QED
      BY <2>1, <2>2, <2>3, <2>5, PassDone
  <1>7. QED
    BY <1>3, <1>4, <1>5, <1>6

LEMMA LeavingKeeps ==
    ASSUME CrankInv, NEW v \in Vaults,
           \/ SkipVault(v) \/ PayWriters(v) \/ WritersFail(v)
           \/ \E p \in {"holders", "writers"} : PayCrash(v, p)
    PROVE  CrankInv'
  <1>1. CrankTypeOK
    BY DEF CrankInv
  <1>2. NextVault(v) /\ UNCHANGED cacheVars
    BY DEF SkipVault, PayWriters, WritersFail, PayCrash
  <1>3. CASE PayWriters(v)
    <2>1. Dwindles
      BY <1>1, <1>3, PayDwindles DEF PayWriters
    <2>2. QED
      BY <1>2, <2>1, VaultLeft
  <1>4. CASE ~PayWriters(v)
    <2>1. Dwindles
      BY <1>1, <1>4, ChainUnchanged DEF SkipVault, WritersFail, PayCrash
    <2>2. QED
      BY <1>2, <2>1, VaultLeft
  <1>5. QED
    BY <1>3, <1>4

\* What is marked was clean in every pass and has no writer: nothing is left to be
\* returned, and nobody whose money could be left.
LEMMA MarkingKeeps ==
    ASSUME CrankInv, NEW v \in Vaults, MarkFinished(v)
    PROVE  CrankInv'
  <1>1. CrankTypeOK /\ SweepInv /\ LookedAt /\ FinishedOwesNothing
    BY DEF CrankInv
  <1>2. Dwindles
    BY <1>1, ChainUnchanged DEF MarkFinished
  <1>3. /\ todo' \subseteq todo /\ clean' = FALSE /\ pass' = "vault"
        /\ funded' = funded
        /\ finished' \subseteq finished \cup {v}
        /\ v \in finished' => clean \/ v \in finished
        /\ file' \in {file, finished'}
        /\ UNCHANGED <<stage, owed, left>>
    BY DEF MarkFinished, NextVault, Flushes, chainVars
  <1>4. SweepTypes
    BY <1>1, <1>3 DEF CrankTypeOK, SweepTypes
  <1>5. ASSUME clean
        PROVE  v \in Settled /\ owed[v] \subseteq {"holder", "backer"}
    <2>1. v \in todo /\ pass = "writers" /\ v = Oldest(todo) /\ "writer" \notin owed[v]
      BY DEF MarkFinished, At
    <2>2. owed[v] \cap {"listing", "ask", "bid"} = {}
      BY <1>1, <1>5, <2>1 DEF LookedAt, Behind
    <2>3. owed[v] \subseteq Accounts /\ v \in Settled
      BY <1>1, <2>1 DEF CrankTypeOK, SweepInv
    <2>4. QED
      BY <2>1, <2>2, <2>3 DEF Accounts
  <1>6. CrankTypeOK' /\ SweepInv'
    BY <1>2, <1>3, <1>4, TypesKept, SweepKept
  <1>7. FinishedOwesNothing'
    <2>1. ASSUME NEW u \in finished' \cup file'
          PROVE  u \in Settled' /\ owed'[u] \subseteq {"holder", "backer"}
      <3>1. u \in finished \cup file \/ (u = v /\ clean)
        BY <1>3
      <3>2. u \in Settled /\ owed[u] \subseteq {"holder", "backer"}
        BY <1>1, <1>5, <3>1 DEF FinishedOwesNothing
      <3>3. QED
        BY <1>3, <3>2 DEF Settled
    <2>2. \A u \in todo' : MaySuppress(u)' => left'[u] = {}
      BY <1>6 DEF SweepInv, MaySuppress
    <2>3. QED
      BY <2>1, <2>2 DEF FinishedOwesNothing
  <1>8. LookedAt'
    BY <1>3 DEF LookedAt
  <1>9. QED
    BY <1>6, <1>7, <1>8 DEF CrankInv

\* The sweep begins, ends, or is lost in a restart.
LEMMA LoopKeeps ==
    ASSUME CrankInv, StartSweep \/ EndSweep \/ Restart
    PROVE  CrankInv'
  <1>1. CrankTypeOK
    BY DEF CrankInv
  <1>2. Dwindles
    BY <1>1, ChainUnchanged DEF StartSweep, EndSweep, Restart
  <1>3. /\ todo' \in {todo, {}, Settled} /\ pass' \in {"vault", "settle"}
        /\ finished' \subseteq finished \cup file
        /\ file' \subseteq finished \cup file
    BY DEF StartSweep, EndSweep, Restart, Flushes, cacheVars
  <1>4. funded' \subseteq Vaults /\ clean' \in BOOLEAN
    BY <1>1 DEF CrankTypeOK, StartSweep, EndSweep, Restart
  <1>5. SweepTypes
    BY <1>1, <1>3, <1>4 DEF CrankTypeOK, SweepTypes, Settled
  <1>6. Behind(pass)' = {}
    BY <1>3 DEF Behind
  <1>7. LookedAt'
    BY <1>6 DEF LookedAt
  <1>8. CrankTypeOK'
    BY <1>2, <1>5, TypesKept
  <1>9. SweepInv'
    <2>1. CASE StartSweep
      BY <2>1 DEF StartSweep, SweepInv, chainVars, Settled
    <2>2. CASE EndSweep
      BY <1>2, <2>2, SweepKept DEF EndSweep
    <2>3. CASE Restart
      BY <2>3 DEF Restart, SweepInv
    <2>4. QED
      BY <2>1, <2>2, <2>3
  <1>10. FinishedOwesNothing'
    BY <1>2, <1>3, <1>9, FinishedKept
  <1>11. QED
    BY <1>7, <1>8, <1>9, <1>10 DEF CrankInv

LEMMA CrankStepKeeps == CrankInv /\ [CrankNext]_crankVars => CrankInv'
  <1> SUFFICES ASSUME CrankInv, [CrankNext]_crankVars PROVE CrankInv'
    OBVIOUS
  <1>1. CASE UNCHANGED crankVars
    <2>1. CrankTypeOK /\ UNCHANGED <<chainVars, cacheVars, sweepVars>>
      BY <1>1 DEF CrankInv, crankVars
    <2>2. QED
      BY <2>1, ChainUnchanged, AccountsMove
  <1>2. CASE StartSweep \/ EndSweep \/ Restart
    BY <1>2, LoopKeeps
  <1>3. ASSUME NEW v \in Vaults,
               \/ SomebodySettles(v) \/ SomebodyCloses(v) \/ WindowEnds(v)
               \/ RecordPrice(v) \/ Fanout(v)
        PROVE  CrankInv'
    BY <1>3, OthersKeep
  <1>4. ASSUME NEW v \in Vaults, SweepStep(v)
        PROVE  CrankInv'
    BY <1>4, PassesKeep, LeavingKeeps, MarkingKeeps DEF SweepStep
  <1>5. QED
    BY <1>1, <1>2, <1>3, <1>4 DEF CrankNext

LEMMA CrankAlways == CrankSpec => []CrankInv
  BY CrankInitEstablishes, CrankStepKeeps, PTL DEF CrankSpec

-----------------------------------------------------------------------------
(* The theorems. *)

\* Every variable of the crank keeps its type.
THEOREM CrankTypesCorrect == CrankSpec => []CrankTypeOK
  <1>1. CrankInv => CrankTypeOK
    BY DEF CrankInv
  <1>2. QED
    BY <1>1, CrankAlways, PTL

\* However scans, batches and passes fail and whenever the process is restarted,
\* no vault is remembered as finished, in memory or on disk, that still has an
\* order, a listing or a pool writer, and no vault is skipped while there is
\* money in it, whoever it belongs to (finalizeCache.ts, bot.ts).
THEOREM FinishedVaultsOweNothing == CrankSpec => []FinishedOwesNothing
  <1>1. CrankInv => FinishedOwesNothing
    BY DEF CrankInv
  <1>2. QED
    BY <1>1, CrankAlways, PTL

-----------------------------------------------------------------------------
USE DEF TapeAssumption

LEMMA TapeConstants ==
    /\ PageSize \in Nat \ {0} /\ BatchSize \in Nat \ {0}
    /\ MaxChain \in Nat /\ MaxCrashes \in Nat
  BY TapeAssumption

-----------------------------------------------------------------------------
(* Pages. *)

\* The signature a page starts from.
Top(below) == IF below = 0 THEN chain ELSE below - 1

\* A page goes from the newest admissible signature down; one that is not full
\* leaves nothing above its limit.
LEMMA PageIsInterval ==
    ASSUME NEW above \in Nat, NEW below \in Nat, chain \in Nat
    PROVE  LET page == PageBetween(above, below) IN
           /\ \A i \in page : i \in Nat /\ above < i /\ i <= Top(below)
           /\ page # {} => /\ above < Top(below)
                           /\ Newest(page) = Top(below)
                           /\ Lowest(page) \in page
                           /\ Lowest(page)..Top(below) \subseteq page
           /\ Cardinality(page) # PageSize => above + 1..Top(below) \subseteq page
           /\ Cardinality(page) = PageSize => page # {}
  <1> DEFINE page == PageBetween(above, below)
             top == Top(below)
             low == IF top - PageSize >= above THEN top - PageSize + 1
                                              ELSE above + 1
  <1>1. PageSize \in Nat \ {0} /\ top \in Int /\ low \in Nat
    BY TapeConstants DEF Top
  <1>2. page = {i \in above + 1..top : i > top - PageSize}
    BY DEF PageBetween, Top
  <1> HIDE DEF top
  <1>3. page = low..top
    BY <1>1, <1>2
  <1>4. above < low
    BY <1>1
  <1> HIDE DEF page
  <1>5. \A i \in page : i \in Nat /\ above < i /\ i <= top
    BY <1>1, <1>3, <1>4
  <1>6. ASSUME page # {}
        PROVE  /\ above < top /\ Newest(page) = top
               /\ Lowest(page) \in page /\ Lowest(page)..top \subseteq page
    <2>1. low <= top /\ low \in page /\ top \in page
      BY <1>1, <1>3, <1>6
    <2>2. Newest(page) = top
      <3>1. \E i \in page : \A j \in page : j <= i
        BY <1>1, <1>3, <2>1
      <3>2. Newest(page) \in page /\ \A j \in page : j <= Newest(page)
        BY <3>1 DEF Newest
      <3>3. QED
        BY <1>1, <1>3, <2>1, <3>2
    <2>3. Lowest(page) = low
      <3>1. \E i \in page : \A j \in page : i <= j
        <4>1. \A j \in page : low <= j
          BY <1>1, <1>3
        <4>2. QED
          BY <2>1, <4>1, Zenon
      <3>2. Lowest(page) \in page /\ \A j \in page : Lowest(page) <= j
        BY <3>1 DEF Lowest
      <3>3. QED
        BY <1>1, <1>3, <2>1, <3>2
    <2>4. QED
      BY <1>1, <1>3, <1>4, <2>1, <2>2, <2>3
  <1>7. ASSUME Cardinality(page) # PageSize
        PROVE  above + 1..top \subseteq page
    <2>1. CASE top - PageSize >= above
      <3>1. Cardinality(low..top)
                = IF low > top THEN 0 ELSE top - low + 1
        BY <1>1, FS_Interval
      <3>2. low = top - PageSize + 1
        BY <2>1
      <3>3. Cardinality(page) = PageSize
        BY <1>1, <1>3, <3>1, <3>2
      <3>4. QED
        BY <1>7, <3>3
    <2>2. CASE ~(top - PageSize >= above)
      BY <1>3, <2>2
    <2>3. QED
      BY <2>1, <2>2
  <1>8. Cardinality(page) = PageSize => page # {}
    BY <1>1, FS_EmptySet
  <1>9. QED
    BY <1>5, <1>6, <1>7, <1>8 DEF page, top

-----------------------------------------------------------------------------
(* The invariant. *)

\* Between ticks there is nothing in memory.
MemoryEmpty == work = {} /\ newest = 0 /\ oldest = 0 /\ failed = FALSE

\* While a tick collects its pages: all signatures from the oldest to the newest.
AllCollected ==
    /\ failed = FALSE
    /\ cursor < oldest /\ oldest <= newest /\ newest <= chain
    /\ oldest..newest \subseteq work

\* While it fetches them: every signature of the tick is still to do, or done, or
\* a batch has failed.
ToDoOrDone ==
    /\ cursor < newest /\ newest <= chain
    /\ failed = FALSE => cursor + 1..newest \subseteq work \cup Done

Collected ==
    /\ mode \in {"boot", "walk", "tail"} => MemoryEmpty
    /\ mode = "walking" => newest = 0
    /\ mode = "paging" => AllCollected
    /\ mode = "ingesting" => ToDoOrDone

USE DEF MemoryEmpty, AllCollected, ToDoOrDone

TapeInv == TapeTypeOK /\ Collected

LEMMA TapeInitEstablishes == TapeInit => TapeInv
  <1> SUFFICES ASSUME TapeInit PROVE TapeInv
    OBVIOUS
  <1>1. TapeTypeOK
    <2>1. 0 \in 0..MaxChain /\ 0 \in 0..MaxCrashes
      BY TapeConstants
    <2>2. walked \in BOOLEAN /\ failed \in BOOLEAN
      BY DEF TapeInit
    <2>3. mode \in Modes /\ work \subseteq Signatures
          /\ tape \subseteq Signatures /\ passed \subseteq Signatures
      BY DEF TapeInit, Modes
    <2>4. QED
      BY <2>1, <2>2, <2>3 DEF TapeInit, TapeTypeOK
  <1>2. Collected
    BY DEF TapeInit, Collected
  <1>3. QED
    BY <1>1, <1>2 DEF TapeInv

LEMMA NewTransactionKeeps == TapeInv /\ NewTransaction => TapeInv'
  <1> SUFFICES ASSUME TapeInv, NewTransaction PROVE TapeInv'
    OBVIOUS
  <1>1. chain' \in 0..MaxChain /\ chain \in Nat /\ chain' = chain + 1
    BY TapeConstants DEF TapeInv, TapeTypeOK, NewTransaction
  <1>2. TapeTypeOK'
    BY <1>1 DEF TapeInv, TapeTypeOK, NewTransaction, dbVars, memoryVars
  <1>3. Collected'
    BY <1>1 DEF TapeInv, TapeTypeOK, Collected, Done, NewTransaction,
                dbVars, memoryVars
  <1>4. QED
    BY <1>2, <1>3 DEF TapeInv

LEMMA BootKeeps == TapeInv /\ Boot => TapeInv'
  BY DEF TapeInv, TapeTypeOK, Collected, Modes, Boot, dbVars, memoryVars

LEMMA PageTypes ==
    ASSUME TapeInv, NEW above \in Nat, NEW below \in 0..MaxChain,
           PageBetween(above, below) # {}
    PROVE  LET page == PageBetween(above, below) IN
           /\ page \subseteq Signatures
           /\ Newest(page) \in 0..MaxChain /\ Lowest(page) \in 0..MaxChain
           /\ above < Lowest(page) /\ Lowest(page) <= Newest(page)
           /\ Newest(page) = Top(below) /\ Top(below) <= MaxChain
  <1> DEFINE page == PageBetween(above, below)
  <1>1. /\ MaxChain \in Nat /\ below \in Nat
        /\ chain \in Nat /\ chain <= MaxChain
    BY TapeConstants DEF TapeInv, TapeTypeOK
  <1>2. Top(below) \in Int /\ Top(below) <= MaxChain
    BY <1>1 DEF Top
  <1>3. /\ \A i \in page : i \in Nat /\ above < i /\ i <= Top(below)
        /\ Newest(page) = Top(below) /\ Lowest(page) \in page
    BY <1>1, PageIsInterval
  <1> HIDE DEF page
  <1>4. /\ page \subseteq Signatures
        /\ Newest(page) \in 0..MaxChain /\ Lowest(page) \in 0..MaxChain
        /\ above < Lowest(page) /\ Lowest(page) <= Newest(page)
    BY <1>1, <1>2, <1>3 DEF Signatures
  <1>5. QED
    BY <1>2, <1>3, <1>4 DEF page

LEMMA WalkPageKeeps == TapeInv /\ WalkPage => TapeInv'
  <1> SUFFICES ASSUME TapeInv, WalkPage PROVE TapeInv'
    OBVIOUS
  <1> DEFINE page == PageBetween(0, reached)
  <1>1. CASE page = {}
    BY <1>1 DEF TapeInv, TapeTypeOK, Collected, Modes, WalkPage, memoryVars
  <1>2. CASE page # {}
    <2>1. /\ page \subseteq Signatures
          /\ Newest(page) \in 0..MaxChain /\ Lowest(page) \in 0..MaxChain
      BY <1>2, PageTypes DEF TapeInv, TapeTypeOK
    <2>2. /\ cursor' \in {cursor, Newest(page)}
          /\ work' = page /\ oldest' = Lowest(page)
          /\ mode = "walk" /\ mode' = "walking"
          /\ UNCHANGED <<walked, newest, failed, chain, tape, passed, reached,
                          crashes>>
      BY <1>2 DEF WalkPage
    <2> HIDE DEF page
    <2>3. QED
      BY <2>1, <2>2 DEF TapeInv, TapeTypeOK, Collected, Modes
  <1>3. QED
    BY <1>1, <1>2

LEMMA WalkEndsKeep == TapeInv /\ (WalkPageDone \/ WalkAborts) => TapeInv'
  <1>1. ASSUME TapeInv, WalkPageDone PROVE TapeInv'
    <2>1. TapeTypeOK'
      <3>1. walked' \in BOOLEAN
        BY <1>1 DEF WalkPageDone
      <3>2. mode' \in Modes
        BY <1>1 DEF WalkPageDone, Modes
      <3>3. oldest' \in 0..MaxChain /\ reached' \in 0..MaxChain
        BY <1>1, TapeConstants DEF WalkPageDone, TapeInv, TapeTypeOK
      <3>4. failed' \in BOOLEAN
        BY <1>1 DEF WalkPageDone
      <3>5. QED
        BY <1>1, <3>1, <3>2, <3>3, <3>4 DEF WalkPageDone, TapeInv, TapeTypeOK
    <2>2. Collected'
      BY <1>1 DEF WalkPageDone, TapeInv, Collected
    <2>3. QED
      BY <2>1, <2>2 DEF TapeInv
  <1>2. ASSUME TapeInv, WalkAborts PROVE TapeInv'
    BY <1>2 DEF TapeInv, TapeTypeOK, Collected, Done, Modes, WalkAborts,
                dbVars, memoryVars
  <1>3. QED
    BY <1>1, <1>2

LEMMA FetchKeeps == TapeInv /\ FetchBatch => TapeInv'
  <1> SUFFICES ASSUME TapeInv, FetchBatch PROVE TapeInv'
    OBVIOUS
  <1>1. PICK batch \in Batches :
            /\ work' = work \ batch
            /\ \E readable \in SUBSET batch :
                   /\ tape' = tape \cup readable
                   /\ passed' = passed \cup (batch \ readable)
    BY DEF FetchBatch
  <1>2. batch \subseteq work /\ work \subseteq Signatures
    BY DEF Batches, TapeInv, TapeTypeOK
  <1>3. /\ tape' \subseteq Signatures /\ passed' \subseteq Signatures
        /\ work' \cup Done' = work \cup Done
    BY <1>1, <1>2 DEF Done, TapeInv, TapeTypeOK
  <1>4. /\ Ingesting
        /\ UNCHANGED <<chain, cursor, reached, walked, mode, newest, oldest,
                        failed, crashes>>
    BY DEF FetchBatch
  <1>5. TapeTypeOK'
    BY <1>1, <1>2, <1>3, <1>4 DEF TapeInv, TapeTypeOK
  <1>6. Collected'
    BY <1>3, <1>4 DEF TapeInv, Collected, Ingesting
  <1>7. QED
    BY <1>5, <1>6 DEF TapeInv

LEMMA BatchFailsKeeps == TapeInv /\ BatchFails => TapeInv'
  BY DEF TapeInv, TapeTypeOK, Collected, Modes, BatchFails, Batches, Ingesting,
         dbVars

LEMMA TailPageKeeps == TapeInv /\ TailPage => TapeInv'
  <1> SUFFICES ASSUME TapeInv, TailPage PROVE TapeInv'
    OBVIOUS
  <1> DEFINE page == PageBetween(cursor, oldest)
  <1>1. TapeTypeOK /\ Collected
    BY DEF TapeInv
  <1>2. /\ cursor \in Nat /\ oldest \in Nat /\ chain \in Nat
        /\ oldest \in 0..MaxChain /\ MaxChain \in Nat
    BY <1>1, TapeConstants DEF TapeTypeOK
  <1>3. /\ work' = work \cup page
        /\ newest' = IF newest = 0 /\ page # {} THEN Newest(page) ELSE newest
        /\ oldest' = IF page # {} THEN Lowest(page) ELSE oldest
        /\ mode' = IF Cardinality(page) = PageSize THEN "paging"
                   ELSE IF work' = {} THEN "tail" ELSE "ingesting"
        /\ UNCHANGED <<chain, tape, passed, cursor, reached, walked, failed,
                        crashes>>
        /\ mode \in {"tail", "paging"}
    BY DEF TailPage, dbVars
  <1>4. /\ page # {} =>
              /\ page \subseteq Signatures
              /\ Newest(page) \in 0..MaxChain /\ Lowest(page) \in 0..MaxChain
              /\ cursor < Lowest(page) /\ Lowest(page) <= Newest(page)
              /\ Newest(page) = Top(oldest)
        /\ page # {} => Lowest(page)..Top(oldest) \subseteq page
        /\ Cardinality(page) # PageSize => cursor + 1..Top(oldest) \subseteq page
        /\ Cardinality(page) = PageSize => page # {}
    BY <1>2, PageTypes, PageIsInterval
  <1> HIDE DEF page
  <1>5. TapeTypeOK'
    BY <1>1, <1>3, <1>4 DEF TapeTypeOK, Modes
  <1>6. failed' = FALSE
    BY <1>1, <1>3 DEF Collected
  <1>7. CASE oldest = 0
    <2>1. mode = "tail" /\ work = {} /\ newest = 0 /\ Top(oldest) = chain
      <3>1. mode # "paging"
        BY <1>1, <1>2, <1>7 DEF Collected
      <3>2. mode = "tail"
        BY <1>3, <3>1
      <3>3. QED
        BY <1>1, <1>7, <3>2 DEF Collected, Top
    <2>2. CASE page = {}
      <3>1. /\ mode' = "tail" /\ work' = {} /\ newest' = 0 /\ oldest' = 0
        BY <1>3, <1>4, <1>7, <2>1, <2>2
      <3>2. QED
        BY <1>5, <1>6, <3>1 DEF TapeInv, Collected
    <2>3. CASE page # {}
      <3>1. /\ work' = page /\ newest' = chain /\ oldest' = Lowest(page)
            /\ cursor < oldest' /\ oldest' <= newest'
            /\ mode' \in {"paging", "ingesting"}
        BY <1>3, <1>4, <2>1, <2>3
      <3>2. CASE mode' = "paging"
        <4>1. oldest'..newest' \subseteq work'
          BY <1>4, <2>1, <2>3, <3>1
        <4>2. newest' <= chain' /\ cursor' < oldest'
          BY <1>2, <1>3, <3>1
        <4>3. QED
          BY <1>5, <1>6, <3>1, <3>2, <4>1, <4>2 DEF TapeInv, Collected
      <3>3. CASE mode' = "ingesting"
        <4>1. cursor + 1..chain \subseteq page
          BY <1>3, <1>4, <2>1, <3>3
        <4>2. cursor < chain
          <5>1. Lowest(page) \in Nat /\ cursor < Lowest(page)
                /\ Lowest(page) <= chain
            BY <1>4, <2>1, <2>3
          <5>2. QED
            BY <1>2, <5>1
        <4>3. /\ cursor' + 1..newest' \subseteq work'
              /\ cursor' < newest' /\ newest' <= chain'
          BY <1>2, <1>3, <3>1, <4>1, <4>2
        <4>4. QED
          BY <1>5, <3>3, <4>3 DEF TapeInv, Collected
      <3>4. QED
        BY <3>1, <3>2, <3>3
    <2>4. QED
      BY <2>2, <2>3
  <1>8. CASE oldest # 0
    <2>1. /\ mode = "paging" /\ Top(oldest) = oldest - 1
          /\ cursor < oldest /\ oldest <= newest /\ newest <= chain
          /\ oldest..newest \subseteq work /\ newest \in 0..MaxChain
          /\ newest # 0
      <3>1. mode # "tail"
        BY <1>1, <1>8 DEF Collected
      <3>2. mode = "paging"
        BY <1>3, <3>1
      <3>3. newest \in 0..MaxChain
        BY <1>1 DEF TapeTypeOK
      <3>4. /\ cursor < oldest /\ oldest <= newest /\ newest <= chain
            /\ oldest..newest \subseteq work
        BY <1>1, <3>2 DEF Collected
      <3>5. newest # 0
        BY <1>2, <1>8, <3>3, <3>4
      <3>6. QED
        BY <1>8, <3>2, <3>3, <3>4, <3>5 DEF Top
    <2>2. newest' = newest /\ mode' \in {"paging", "ingesting"}
      BY <1>3, <2>1
    <2>3. CASE mode' = "paging"
      <3>1. /\ page # {} /\ oldest' = Lowest(page) /\ oldest' \in 0..MaxChain
            /\ cursor < oldest' /\ oldest' <= oldest - 1
            /\ oldest'..oldest - 1 \subseteq page
        BY <1>3, <1>4, <2>1, <2>3
      <3>2. oldest'..newest' \subseteq work'
        <4>1. ASSUME NEW i \in oldest'..newest' PROVE i \in work \cup page
          <5>1. CASE i < oldest
            BY <1>2, <2>1, <2>2, <3>1, <5>1
          <5>2. CASE ~(i < oldest)
            BY <1>2, <2>1, <2>2, <3>1, <5>2
          <5>3. QED
            BY <5>1, <5>2
        <4>2. QED
          BY <1>3, <4>1
      <3>3. cursor' < oldest' /\ oldest' <= newest' /\ newest' <= chain'
        BY <1>2, <1>3, <2>1, <2>2, <3>1
      <3>4. QED
        BY <1>5, <1>6, <2>3, <3>2, <3>3 DEF TapeInv, Collected
    <2>4. CASE mode' = "ingesting"
      <3>1. cursor + 1..oldest - 1 \subseteq page
        BY <1>3, <1>4, <2>1, <2>4
      <3>2. cursor + 1..newest' \subseteq work'
        <4>1. ASSUME NEW i \in cursor + 1..newest' PROVE i \in work \cup page
          <5>1. CASE i < oldest
            BY <1>2, <2>1, <2>2, <3>1, <5>1
          <5>2. CASE ~(i < oldest)
            BY <1>2, <2>1, <2>2, <3>1, <5>2
          <5>3. QED
            BY <5>1, <5>2
        <4>2. QED
          BY <1>3, <4>1
      <3>3. cursor' < newest' /\ newest' <= chain'
        BY <1>2, <1>3, <2>1, <2>2
      <3>4. cursor' + 1..newest' \subseteq work'
        BY <1>3, <3>2
      <3>5. QED
        BY <1>5, <2>4, <3>3, <3>4 DEF TapeInv, Collected
    <2>5. QED
      BY <2>2, <2>3, <2>4
  <1>9. QED
    BY <1>7, <1>8

\* The end of a tick, and a crash, empty the memory.
MemoryEmptied ==
    /\ mode' \in {"boot", "tail"}
    /\ work' = {} /\ newest' = 0 /\ oldest' = 0 /\ failed' = FALSE

LEMMA TickOverKeeps ==
    TapeInv /\ (TailAborts \/ TailDone \/ Crash) => TapeInv'
  <1> SUFFICES ASSUME TapeInv, TailAborts \/ TailDone \/ Crash PROVE TapeInv'
    OBVIOUS
  <1>1. MemoryEmptied
    BY DEF TailAborts, TailDone, Crash, TickOver, MemoryEmptied
  <1>2. /\ cursor' \in {cursor, newest} /\ crashes' \in {crashes, crashes + 1}
        /\ crashes' # crashes => crashes < MaxCrashes
        /\ UNCHANGED <<chain, tape, passed, reached, walked>>
    BY DEF TailAborts, TailDone, Crash, dbVars
  <1>3. TapeTypeOK
    BY DEF TapeInv
  <1>4. cursor' \in 0..MaxChain
    BY <1>2, <1>3 DEF TapeTypeOK
  <1>5. crashes' \in 0..MaxCrashes
    BY <1>2, <1>3, TapeConstants DEF TapeTypeOK
  <1>6. mode' \in Modes
    BY <1>1 DEF MemoryEmptied, Modes
  <1>7. 0 \in 0..MaxChain
    BY TapeConstants
  <1>8. work' \subseteq Signatures /\ failed' \in BOOLEAN
        /\ newest' \in 0..MaxChain /\ oldest' \in 0..MaxChain
    BY <1>1, <1>7 DEF MemoryEmptied
  <1>9. TapeTypeOK'
    BY <1>2, <1>3, <1>4, <1>5, <1>6, <1>8 DEF TapeTypeOK
  <1>10. Collected'
    BY <1>1 DEF Collected, MemoryEmptied
  <1>11. QED
    BY <1>9, <1>10 DEF TapeInv

LEMMA TapeStepKeeps == TapeInv /\ [TapeNext]_tapeVars => TapeInv'
  <1>1. ASSUME TapeInv, UNCHANGED tapeVars PROVE TapeInv'
    <2>1. TapeTypeOK'
      BY <1>1 DEF TapeInv, TapeTypeOK, tapeVars, dbVars, memoryVars
    <2>2. Collected'
      BY <1>1 DEF TapeInv, Collected, Done, tapeVars, dbVars, memoryVars
    <2>3. QED
      BY <2>1, <2>2 DEF TapeInv
  <1>2. QED
    BY <1>1, NewTransactionKeeps, BootKeeps, WalkPageKeeps, WalkEndsKeep,
       FetchKeeps, BatchFailsKeeps, TailPageKeeps, TickOverKeeps
       DEF TapeNext, IndexerStep

LEMMA TapeAlways == TapeSpec => []TapeInv
  BY TapeInitEstablishes, TapeStepKeeps, PTL DEF TapeSpec

-----------------------------------------------------------------------------
(* The theorems. *)

\* Every variable of the indexer keeps its type.
THEOREM TapeTypesCorrect == TapeSpec => []TapeTypeOK
  <1>1. TapeInv => TapeTypeOK
    BY DEF TapeInv
  <1>2. QED
    BY <1>1, TapeAlways, PTL

\* Whatever pages and batches fail and wherever the indexer crashes, the cursor
\* moves only forwards and only over signatures that were looked at (poller.ts).
THEOREM CursorIsSafe == TapeSpec => CursorLeavesNothingBehind
  <1> DEFINE Moves == cursor # 0 /\ cursor' # cursor =>
                          /\ cursor' > cursor
                          /\ \A i \in cursor + 1 .. cursor' : i \in Done
  <1>1. TapeInv /\ [TapeNext]_tapeVars => [Moves]_tapeVars
    <2> SUFFICES ASSUME TapeInv, TapeNext, cursor # 0, cursor' # cursor
                 PROVE  /\ cursor' > cursor
                        /\ \A i \in cursor + 1 .. cursor' : i \in Done
      BY DEF tapeVars
    <2>1. TailDone
      BY DEF TapeNext, IndexerStep, NewTransaction, Boot, WalkPage, WalkPageDone,
             WalkAborts, FetchBatch, BatchFails, TailPage, TailAborts, Crash, dbVars
    <2>2. mode = "ingesting" /\ work = {} /\ failed = FALSE /\ cursor' = newest
      BY <2>1 DEF TailDone
    <2>3. QED
      BY <2>2 DEF TapeInv, TapeTypeOK, Collected
  <1>2. QED
    BY <1>1, TapeAlways, PTL DEF TapeSpec, CursorLeavesNothingBehind

-----------------------------------------------------------------------------
(* The keeper of trigger orders, on the program's own guards. *)

KeeperInv == TriggerInv /\ KeeperTypeOK

LEMMA KeeperConstants ==
    /\ Spots \subseteq Nat
    /\ NoOrders \in [TriggerIds -> TriggerType]
  BY TriggerConstants, NoTriggerType DEF NoOrders

LEMMA KeeperInitEstablishes == KeeperInit => KeeperInv
  <1> SUFFICES ASSUME KeeperInit PROVE KeeperInv
    OBVIOUS
  <1>1. TriggerInv
    BY InvInit DEF KeeperInit
  <1>2. QED
    BY <1>1, KeeperConstants DEF KeeperInit, KeeperInv, KeeperTypeOK, TriggerInv

\* A transaction that lands is a call anybody could have made.
LEMMA LandIsACall ==
    ASSUME KeeperInv, NEW t \in TriggerIds, Land(t)
    PROVE  AnyoneExecutes
  <1>1. PICK tx \in flight : tx.id = t /\ ExecuteTrigger(t, tx.route, tx.peer)
    BY DEF Land
  <1>2. tx.route \in Routes /\ tx.peer \in TriggerIds \cup {NoLink}
    BY <1>1 DEF KeeperInv, KeeperTypeOK
  <1>3. QED
    BY <1>1, <1>2 DEF AnyoneExecutes

\* What the keeper's own variables do at a step that sends.
LEMMA SendKeeps ==
    ASSUME KeeperInv, NEW t \in TriggerIds, SendOrder(t)
    PROVE  flight' \subseteq [id : TriggerIds, route : Routes,
                             peer : TriggerIds \cup {NoLink}]
  <1>1. view[t].oco_link \in TriggerIds \cup {NoLink}
    BY DEF KeeperInv, KeeperTypeOK, TriggerType
  <1>2. PICK route \in Routes :
            flight' = flight \cup {[id |-> t, route |-> route, peer |-> view[t].oco_link]}
    BY DEF SendOrder, SendKnowing, RouteFor, Routes
  <1>3. QED
    BY <1>1, <1>2 DEF KeeperInv, KeeperTypeOK

\* Dropping an order from the snapshot leaves the others as they were read.
LEMMA SnapshotKeeps ==
    ASSUME KeeperInv, NEW t \in TriggerIds, view' = [view EXCEPT ![t] = NoTrigger]
    PROVE  view' \in [TriggerIds -> TriggerType]
  BY NoTriggerType DEF KeeperInv, KeeperTypeOK

LEMMA KeeperStepKeeps ==
    ASSUME KeeperInv, [KeeperNext]_allVars
    PROVE  /\ KeeperInv'
           /\ [TriggerNext]_triggerVars
  <1> DEFINE Own == /\ phase' \in {"idle", "fetched", "loop"}
                    /\ view' \in [TriggerIds -> TriggerType]
                    /\ seen' \in Nat
                    /\ flight' \subseteq [id : TriggerIds, route : Routes,
                                         peer : TriggerIds \cup {NoLink}]
  <1>1. /\ phase \in {"idle", "fetched", "loop"}
        /\ view \in [TriggerIds -> TriggerType]
        /\ seen \in Nat
        /\ flight \subseteq [id : TriggerIds, route : Routes,
                            peer : TriggerIds \cup {NoLink}]
        /\ trigger \in [TriggerIds -> TriggerType] /\ spot \in Nat
    BY DEF KeeperInv, KeeperTypeOK, TriggerTypeOK
  <1>2. ASSUME [TriggerNext]_triggerVars, Own
        PROVE  KeeperInv' /\ [TriggerNext]_triggerVars
    <2>1. TriggerInv'
      BY <1>2, InvNext DEF KeeperInv
    <2>2. QED
      BY <1>2, <2>1 DEF KeeperInv, KeeperTypeOK, TriggerInv
  <1>3. CASE FetchOrders
    <2>1. Own
      BY <1>1, <1>3 DEF FetchOrders, KeeperInv
    <2>2. QED
      BY <1>2, <1>3, <2>1 DEF FetchOrders
  <1>4. CASE ReadPrice
    <2>1. Own
      BY <1>1, <1>4 DEF ReadPrice, KeeperInv, triggerVars, worldVars
    <2>2. QED
      BY <1>2, <1>4, <2>1 DEF ReadPrice
  <1>5. CASE EndTick
    <2>1. Own
      BY <1>1, <1>5, KeeperConstants DEF EndTick, KeeperInv
    <2>2. QED
      BY <1>2, <1>5, <2>1 DEF EndTick
  <1>6. CASE Drop
    <2>1. Own
      BY <1>1, <1>6 DEF Drop, KeeperInv
    <2>2. QED
      BY <1>2, <1>6, <2>1 DEF Drop
  <1>7. ASSUME NEW t \in TriggerIds, SkipOrder(t)
        PROVE  KeeperInv' /\ [TriggerNext]_triggerVars
    <2>1. Own
      BY <1>1, <1>7, SnapshotKeeps DEF SkipOrder, KeeperInv
    <2>2. QED
      BY <1>2, <1>7, <2>1 DEF SkipOrder
  <1>8. ASSUME NEW t \in TriggerIds, SendOrder(t)
        PROVE  KeeperInv' /\ [TriggerNext]_triggerVars
    <2>1. view' = [view EXCEPT ![t] = NoTrigger] /\ UNCHANGED <<phase, seen, triggerVars>>
      BY <1>8 DEF SendOrder, SendKnowing
    <2>2. Own
      BY <1>1, <1>8, <2>1, SnapshotKeeps, SendKeeps
    <2>3. QED
      BY <1>2, <2>1, <2>2
  <1>9. ASSUME NEW t \in TriggerIds, Land(t)
        PROVE  KeeperInv' /\ [TriggerNext]_triggerVars
    <2>1. TriggerNext
      BY <1>9, LandIsACall DEF TriggerNext
    <2>2. Own
      BY <1>1, <1>9 DEF Land, KeeperInv
    <2>3. QED
      BY <1>2, <2>1, <2>2
  <1>10. CASE (Trade \/ AsksMove \/ Expire \/ OwnerActs) /\ UNCHANGED keeperVars
    <2>1. TriggerNext
      BY <1>10 DEF TriggerNext, TriggerWorld
    <2>2. Own
      BY <1>1, <1>10 DEF keeperVars, KeeperInv
    <2>3. QED
      BY <1>2, <2>1, <2>2
  <1>11. CASE UNCHANGED allVars
    <2>1. Own /\ UNCHANGED triggerVars
      BY <1>1, <1>11 DEF allVars, keeperVars, KeeperInv
    <2>2. QED
      BY <1>2, <2>1
  <1>12. QED
    BY <1>3, <1>4, <1>5, <1>6, <1>7, <1>8, <1>9, <1>10, <1>11 DEF KeeperNext

\* The keeper implements the specification of the orders: whatever it saw, lost
\* or sent twice, the program's guards let it do only what anybody may do, so
\* every property of Triggers holds beside a running keeper.
THEOREM KeeperIsAnybody == KeeperSpec => TriggerSpec
  <1>1. KeeperInit => TriggerInit
    BY DEF KeeperInit
  <1>2. KeeperInv /\ [KeeperNext]_allVars => KeeperInv' /\ [TriggerNext]_triggerVars
    BY KeeperStepKeeps
  <1>3. QED
    BY <1>1, <1>2, KeeperInitEstablishes, PTL DEF KeeperSpec, TriggerSpec

-----------------------------------------------------------------------------
(* The three side by side. *)

LEMMA SleepingCrank == CrankAsleep => CrankInv
  BY CrankConstants
     DEF CrankAsleep, CrankInv, CrankTypeOK, SweepInv, LookedAt, FinishedOwesNothing,
         Settled

LEMMA OffchainInitEstablishes == OffchainInit => KeeperInv /\ CrankInv /\ TapeInv
  BY KeeperInitEstablishes, CrankInitEstablishes, SleepingCrank, TapeInitEstablishes
     DEF OffchainInit

LEMMA OffchainStepKeeps ==
    ASSUME KeeperInv, CrankInv, TapeInv, [OffchainNext]_offchainVars
    PROVE  KeeperInv' /\ CrankInv' /\ TapeInv'
  <1>1. /\ [KeeperNext]_allVars
        /\ [CrankNext]_crankVars
        /\ [TapeNext]_tapeVars
    BY DEF OffchainNext, Keeps, Cranks, Tapes, offchainVars
  <1>2. QED
    BY <1>1, KeeperStepKeeps, CrankStepKeeps, TapeStepKeeps

\* Every variable of the three processes has its type.
THEOREM OffchainTypesCorrect == OffchainSpec => []OffchainTypeOK
  <1>1. KeeperInv /\ CrankInv /\ TapeInv /\ [OffchainNext]_offchainVars
            => (KeeperInv /\ CrankInv /\ TapeInv)'
    BY OffchainStepKeeps
  <1>2. KeeperInv /\ CrankInv /\ TapeInv => OffchainTypeOK
    BY DEF KeeperInv, CrankInv, TapeInv, OffchainTypeOK
  <1>3. QED
    BY <1>1, <1>2, OffchainInitEstablishes, PTL DEF OffchainSpec
=============================================================================
