------------------------ MODULE TransferServiceProofs ------------------------
(***************************************************************************)
(* Theorems about TransferService, and with ImplementsService about both   *)
(* engines, for any number of threads and transfers.                       *)
(***************************************************************************)
EXTENDS TransferService, TLAPS

\* The steps keep the types.
LEMMA TypeStep ==
  ASSUME ServiceTypeOK, [ServiceNext]_serviceVars
  PROVE  ServiceTypeOK'
<1> USE DEF ServiceTypeOK
<1>1. CASE UNCHANGED serviceVars
  BY <1>1 DEF serviceVars
<1>2. ASSUME NEW tr \in Transfers, Alloc(tr) \/ Submit(tr) \/ Settle(tr)
      PROVE  ServiceTypeOK'
  BY <1>2 DEF Alloc, Submit, Settle
<1>3. ASSUME NEW tr \in Transfers, Deliver(tr) \/ Finish(tr)
      PROVE  ServiceTypeOK'
  BY <1>3 DEF Deliver, Finish
<1>4. ASSUME NEW tr \in Transfers, NEW W \in SUBSET {t \in Threads : blocked[t] = tr},
             CallbackEnds(tr, W)
      PROVE  ServiceTypeOK'
  <2>1. over' \in [Threads -> BOOLEAN]
    BY <1>4 DEF CallbackEnds
  <2>2. phase' \in [Transfers -> {"free", "idle", "busy"}]
    BY <1>4 DEF CallbackEnds
  <2> QED
    BY <1>4, <2>1, <2>2 DEF CallbackEnds
<1>5. ASSUME NEW t \in Threads, EndWait(t) \/ Return(t)
      PROVE  ServiceTypeOK'
  BY <1>5 DEF EndWait, Return
<1>6. ASSUME NEW t \in Threads, NEW tr \in Transfers, Wait(t, tr)
      PROVE  ServiceTypeOK'
  BY <1>6 DEF Wait
<1>7. CASE Lose
  BY <1>7 DEF Lose
<1> QED
  BY <1>1, <1>2, <1>3, <1>4, <1>5, <1>6, <1>7 DEF ServiceNext

\* And whatever belongs to the application stays quiet.
LEMMA QuietStep ==
  ASSUME ServiceTypeOK, OwnIsQuiet, [ServiceNext]_serviceVars
  PROVE  OwnIsQuiet'
<1> USE DEF OwnIsQuiet, Quiet
<1> SUFFICES ASSUME strict' PROVE OwnIsQuiet'
  OBVIOUS
<1>0. strict
  BY DEF ServiceNext, serviceVars, Alloc, Submit, Deliver, Finish, Settle, CallbackEnds,
         EndWait, Return, Wait, Lose
<1>1. CASE UNCHANGED serviceVars
  BY <1>1 DEF serviceVars
<1>2. ASSUME NEW tr \in Transfers, Alloc(tr) \/ Settle(tr)
      PROVE  OwnIsQuiet'
  BY <1>0, <1>2 DEF Alloc, Settle, Settled, ServiceTypeOK
<1>3. ASSUME NEW tr \in Transfers, Submit(tr) \/ Deliver(tr)
      PROVE  OwnIsQuiet'
  BY <1>0, <1>3 DEF Submit, Deliver, ServiceTypeOK
<1>4. ASSUME NEW tr \in Transfers, Finish(tr)
      PROVE  OwnIsQuiet'
  BY <1>0, <1>4 DEF Finish, ServiceTypeOK
<1>5. ASSUME NEW tr \in Transfers, NEW W \in SUBSET {t \in Threads : blocked[t] = tr},
             CallbackEnds(tr, W)
      PROVE  OwnIsQuiet'
  BY <1>0, <1>5 DEF CallbackEnds, ServiceTypeOK
<1>6. ASSUME NEW t \in Threads, EndWait(t)
      PROVE  OwnIsQuiet'
  BY <1>0, <1>6 DEF EndWait
<1>7. ASSUME NEW t \in Threads, Return(t)
      PROVE  OwnIsQuiet'
  BY <1>0, <1>7 DEF Return, Settled, ServiceTypeOK
<1>8. ASSUME NEW t \in Threads, NEW tr \in Transfers, Wait(t, tr)
      PROVE  OwnIsQuiet'
  BY <1>0, <1>8 DEF Wait
<1>9. CASE Lose
  BY <1>0, <1>9 DEF Lose
<1> QED
  BY <1>1, <1>2, <1>3, <1>4, <1>5, <1>6, <1>7, <1>8, <1>9 DEF ServiceNext

-----------------------------------------------------------------------------

\* The transfer service keeps its types; the number of callbacks due is never
\* negative.
THEOREM ServiceTypeCorrect == ServiceSpec => []ServiceTypeOK
<1>1. ServiceInit => ServiceTypeOK
  BY DEF ServiceInit, ServiceTypeOK
<1> QED
  BY <1>1, TypeStep, PTL DEF ServiceSpec

\* A transfer that the application was told is its own, by a wait or by the end
\* of a synchronous call, has no request and no callback under way in an
\* engine that implements the service with the promise about waiting.
THEOREM OwnTransfersAreQuiet == ServiceSpec => []OwnIsQuiet
<1>1. ServiceInit => OwnIsQuiet
  BY DEF ServiceInit, OwnIsQuiet, Quiet
<1> QED
  BY <1>1, ServiceTypeCorrect, QuietStep, PTL DEF ServiceSpec

=============================================================================
