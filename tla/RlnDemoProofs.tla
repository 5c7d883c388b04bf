---------------------------- MODULE RlnDemoProofs ----------------------------
(***************************************************************************)
(* Proofs about the RLN demo (module RlnDemo), for every number of checks  *)
(* of the two waits and every behaviour of the node and the network.       *)
(*                                                                         *)
(* ReportedSendAccepted is about the last state, but what makes it true    *)
(* happens at the send: the script records sent_hash only when the answer  *)
(* to eth_sendRawTransaction is a hash, which the node gives only for a    *)
(* transaction it admitted, and the node never forgets what it admitted.   *)
(* The inductive invariant therefore says, in every state:                 *)
(*  - a recorded sent_hash names an admitted transaction of the kind the   *)
(*    fallback flag names (SentAdmitted);                                  *)
(*  - from the monitoring steps on, and at exit 0, sent_hash is recorded   *)
(*    (SentRecorded);                                                      *)
(*  - from the estimate on, the nonce has been read (NonceRead), so the    *)
(*    transactions the script signs are well formed.                       *)
(***************************************************************************)
EXTENDS RlnDemo, TLAPS

USE RlnAssumption

SentAdmitted ==
  sent # None =>
    /\ sent \in accepted
    /\ sent.kind = IF fallback THEN "paid" ELSE "gasless"

SentRecorded ==
  pc \in {"monitor", "mineWait", "receipt", "finalCheck"}
    \/ (pc = "done" /\ rc = 0) => sent # None

NonceRead ==
  pc \in {"estimate", "send", "fbBalance", "faucetNonce", "fund", "fundWait",
          "refresh", "paid"} => nonce \in Nat

IInv == TypeOK /\ SentAdmitted /\ SentRecorded /\ NonceRead

-----------------------------------------------------------------------------

LEMMA IInvInit == Init => IInv
<1>. SUFFICES ASSUME Init PROVE IInv
  OBVIOUS
<1>1. pool \subseteq Txs /\ accepted \subseteq Txs /\ mined \subseteq Txs
  BY DEF Init, Txs, Kinds
<1>2. left \in 0 .. (IF FundPolls > MinePolls THEN FundPolls ELSE MinePolls)
  BY DEF Init
<1>3a. chainNonce \in Nat
  BY DEF Init
<1>3b. balance \in BOOLEAN /\ fallback \in BOOLEAN
  BY DEF Init
<1>3c. fund \in {"none", "pending", "mined"}
  BY DEF Init
<1>3. /\ chainNonce \in Nat /\ balance \in BOOLEAN /\ fallback \in BOOLEAN
      /\ fund \in {"none", "pending", "mined"}
  BY <1>3a, <1>3b, <1>3c
<1>4. pc \in {"balance", "nonce", "estimate", "send", "fbBalance",
              "faucetNonce", "fund", "fundWait", "refresh", "paid",
              "monitor", "mineWait", "receipt", "finalCheck", "done"}
  BY DEF Init
<1>5. nonce \in Nat \cup {None} /\ sent \in Txs \cup {None}
      /\ rc \in {None, 0, 1}
  BY DEF Init
<1>6. TypeOK
  BY <1>1, <1>2, <1>3, <1>4, <1>5 DEF TypeOK
<1>. QED  BY <1>6 DEF Init, IInv, SentAdmitted, SentRecorded, NonceRead

\* A send keeps the node's state well typed and never forgets an admitted
\* transaction; a hash answer means t was admitted.
LEMMA SendKeeps ==
  ASSUME TypeOK, NEW t \in Txs, NEW onHash, NEW onError, ~(onHash /\ onError),
         Send(t, onHash, onError)
  PROVE  /\ pool' \subseteq Txs /\ accepted' \subseteq Txs
         /\ accepted \subseteq accepted'
         /\ onHash => t \in accepted'
<1>1. CASE Admissible(t) /\ pool' = {p \in pool : p.n # t.n} \cup {t}
           /\ accepted' = accepted \cup {t}
  BY <1>1 DEF TypeOK
<1>2. CASE UNCHANGED <<pool, accepted>> /\ onError
  BY <1>2 DEF TypeOK
<1>. QED  BY <1>1, <1>2 DEF Send

PcSet == {"balance", "nonce", "estimate", "send", "fbBalance", "faucetNonce",
          "fund", "fundWait", "refresh", "paid", "monitor", "mineWait",
          "receipt", "finalCheck", "done"}
LeftRange == 0 .. (IF FundPolls > MinePolls THEN FundPolls ELSE MinePolls)

\* A step of main() that sends nothing keeps the invariant when it moves to
\* a known place, either keeps the exit status or crashes, and has recorded
\* sent_hash and read the nonce wherever the invariant asks for them.
LEMMA MoveOn ==
  ASSUME IInv, UNCHANGED <<nodeVars, sent, fallback>>,
         pc' \in PcSet, left' \in LeftRange, nonce' \in Nat \cup {None},
         rc' \in {None, 0, 1},
         pc' \in {"monitor", "mineWait", "receipt", "finalCheck"}
           \/ (pc' = "done" /\ rc' = 0) => sent # None,
         pc' \in {"estimate", "send", "fbBalance", "faucetNonce", "fund",
                  "fundWait", "refresh", "paid"} => nonce' \in Nat
  PROVE  IInv'
<1>1. TypeOK'
  BY DEF IInv, TypeOK, nodeVars, PcSet, LeftRange
<1>2. SentAdmitted'
  BY DEF IInv, SentAdmitted, nodeVars
<1>. QED  BY <1>1, <1>2 DEF IInv, SentRecorded, NonceRead

LEMMA ReadBalanceStep == IInv /\ ReadBalance => IInv'
BY MoveOn DEF ReadBalance, Goto, Crash, PcSet, LeftRange, IInv, TypeOK

LEMMA ReadNonceStep == IInv /\ ReadNonce => IInv'
BY MoveOn DEF ReadNonce, Goto, Crash, PcSet, LeftRange, IInv, TypeOK, nodeVars

LEMMA EstimateStep == IInv /\ Estimate => IInv'
BY MoveOn DEF Estimate, Goto, Crash, PcSet, LeftRange, IInv, TypeOK, NonceRead

LEMMA FallbackBalanceStep == IInv /\ FallbackBalance => IInv'
BY MoveOn DEF FallbackBalance, Goto, Crash, PcSet, LeftRange, IInv, TypeOK,
              NonceRead

LEMMA FaucetNonceStep == IInv /\ FaucetNonce => IInv'
BY MoveOn DEF FaucetNonce, Goto, Crash, PcSet, LeftRange, IInv, TypeOK,
              NonceRead

LEMMA FundSendStep == IInv /\ FundSend => IInv'
<1>. SUFFICES ASSUME IInv, FundSend PROVE IInv'
  OBVIOUS
<1>1. TypeOK'
  BY DEF IInv, TypeOK, FundSend, Goto, LeftRange
<1>. QED  BY <1>1 DEF IInv, FundSend, Goto, SentAdmitted, SentRecorded, NonceRead

LEMMA FundPollStep == IInv /\ FundPoll => IInv'
BY MoveOn DEF FundPoll, Goto, PcSet, LeftRange, IInv, TypeOK, NonceRead

LEMMA FundGiveUpStep == IInv /\ FundGiveUp => IInv'
BY MoveOn DEF FundGiveUp, Goto, PcSet, LeftRange, IInv, TypeOK, NonceRead

LEMMA RefreshNonceStep == IInv /\ RefreshNonce => IInv'
BY MoveOn DEF RefreshNonce, Goto, Crash, PcSet, LeftRange, IInv, TypeOK,
              nodeVars

LEMMA MonitorStep == IInv /\ Monitor => IInv'
BY MoveOn DEF Monitor, Goto, PcSet, LeftRange, IInv, TypeOK, SentRecorded

LEMMA MinePollStep == IInv /\ MinePoll => IInv'
BY MoveOn DEF MinePoll, Goto, PcSet, LeftRange, IInv, TypeOK, SentRecorded

LEMMA MineGiveUpStep == IInv /\ MineGiveUp => IInv'
BY MoveOn DEF MineGiveUp, Goto, PcSet, LeftRange, IInv, TypeOK, SentRecorded

LEMMA ReceiptStep == IInv /\ Receipt => IInv'
BY MoveOn DEF Receipt, Crash, PcSet, LeftRange, IInv, TypeOK, SentRecorded

LEMMA FinalCheckStep == IInv /\ FinalCheck => IInv'
BY MoveOn DEF FinalCheck, PcSet, LeftRange, IInv, TypeOK, SentRecorded

\* Line 305: the gasless send.
LEMMA SendGaslessStep == IInv /\ SendGasless => IInv'
<1>. SUFFICES ASSUME IInv, SendGasless PROVE IInv'
  OBVIOUS
<1>. DEFINE t == [n |-> nonce, kind |-> "gasless"]
<1>1. t \in Txs
  BY DEF IInv, NonceRead, SendGasless, Txs, Kinds
<1>2. Send(t, Goto("monitor") /\ sent' = t /\ fallback' = FALSE,
              Goto("fbBalance") /\ UNCHANGED <<sent, fallback>>)
  BY DEF SendGasless
<1>3. /\ pool' \subseteq Txs /\ accepted' \subseteq Txs
      /\ accepted \subseteq accepted'
      /\ (Goto("monitor") /\ sent' = t /\ fallback' = FALSE) => t \in accepted'
  <2>1. ~((Goto("monitor") /\ sent' = t /\ fallback' = FALSE)
          /\ (Goto("fbBalance") /\ UNCHANGED <<sent, fallback>>))
    BY DEF Goto
  <2>. QED  BY <1>1, <1>2, <2>1, SendKeeps DEF IInv
<1>4. CASE Goto("monitor") /\ sent' = t /\ fallback' = FALSE
  BY <1>1, <1>3, <1>4, NoneAssumption
  DEF IInv, TypeOK, SentAdmitted, SentRecorded, NonceRead, Goto, SendGasless
<1>5. CASE Goto("fbBalance") /\ UNCHANGED <<sent, fallback>>
  BY <1>3, <1>5 DEF IInv, TypeOK, SentAdmitted, SentRecorded, NonceRead,
                    Goto, SendGasless
<1>. QED  BY <1>2, <1>4, <1>5 DEF Send

\* Line 359: the paid fallback.
LEMMA SendPaidStep == IInv /\ SendPaid => IInv'
<1>. SUFFICES ASSUME IInv, SendPaid PROVE IInv'
  OBVIOUS
<1>. DEFINE t == [n |-> nonce, kind |-> "paid"]
<1>1. t \in Txs
  BY DEF IInv, NonceRead, SendPaid, Txs, Kinds
<1>2. Send(t, Goto("monitor") /\ sent' = t /\ fallback' = TRUE,
              Crash /\ UNCHANGED <<sent, fallback>>)
  BY DEF SendPaid
<1>3. /\ pool' \subseteq Txs /\ accepted' \subseteq Txs
      /\ accepted \subseteq accepted'
      /\ (Goto("monitor") /\ sent' = t /\ fallback' = TRUE) => t \in accepted'
  <2>1. ~((Goto("monitor") /\ sent' = t /\ fallback' = TRUE)
          /\ (Crash /\ UNCHANGED <<sent, fallback>>))
    BY DEF Goto, Crash
  <2>. QED  BY <1>1, <1>2, <2>1, SendKeeps DEF IInv
<1>4. CASE Goto("monitor") /\ sent' = t /\ fallback' = TRUE
  BY <1>1, <1>3, <1>4, NoneAssumption
  DEF IInv, TypeOK, SentAdmitted, SentRecorded, NonceRead, Goto, SendPaid
<1>5. CASE Crash /\ UNCHANGED <<sent, fallback>>
  BY <1>3, <1>5 DEF IInv, TypeOK, SentAdmitted, SentRecorded, NonceRead,
                    Crash, SendPaid
<1>. QED  BY <1>2, <1>4, <1>5 DEF Send

\* The node's steps touch no state of the script and only grow what it has
\* mined.
LEMMA NodeSteps == IInv /\ Node => IInv'
<1>. SUFFICES ASSUME IInv, Node PROVE IInv'
  OBVIOUS
<1>1. CASE MineTx
  <2>1. UNCHANGED <<balance, fund, accepted, scriptVars>>
    BY <1>1 DEF MineTx
  <2>2. PICK t \in pool : /\ t.n = chainNonce
                          /\ mined' = mined \cup {t}
                          /\ pool' = pool \ {t}
                          /\ chainNonce' = chainNonce + 1
    BY <1>1 DEF MineTx
  <2>3. TypeOK'
    BY <2>1, <2>2 DEF IInv, TypeOK, scriptVars
  <2>. QED  BY <2>1, <2>3 DEF IInv, SentAdmitted, SentRecorded, NonceRead,
                            scriptVars
<1>2. CASE MineFund
  <2>1. UNCHANGED <<chainNonce, pool, mined, accepted, scriptVars>>
    BY <1>2 DEF MineFund
  <2>2. TypeOK'
    BY <1>2, <2>1 DEF IInv, TypeOK, MineFund, scriptVars
  <2>. QED  BY <2>1, <2>2 DEF IInv, SentAdmitted, SentRecorded, NonceRead,
                            scriptVars
<1>. QED  BY <1>1, <1>2 DEF Node

LEMMA StutterStep == IInv /\ UNCHANGED vars => IInv'
BY DEF IInv, TypeOK, SentAdmitted, SentRecorded, NonceRead, vars, nodeVars,
       scriptVars

LEMMA IInvStep == IInv /\ [Next]_vars => IInv'
BY ReadBalanceStep, ReadNonceStep, EstimateStep, SendGaslessStep,
   FallbackBalanceStep, FaucetNonceStep, FundSendStep, FundPollStep,
   FundGiveUpStep, RefreshNonceStep, SendPaidStep, MonitorStep, MinePollStep,
   MineGiveUpStep, ReceiptStep, FinalCheckStep, NodeSteps, StutterStep
DEF Next, Script

-----------------------------------------------------------------------------

\* Every variable of the demo and of the node keeps its type.
THEOREM TypeCorrect == Spec => []TypeOK
<1>1. IInv => TypeOK
  BY DEF IInv
<1>. QED  BY IInvInit, IInvStep, <1>1, PTL DEF Spec

\* When the demo exits 0, the transaction it reports (sent_hash, lines
\* 305-365) is one the node admitted, of the kind used_paid_fallback names,
\* whatever answers were lost.
THEOREM ReportedSendAcceptedHolds == Spec => []ReportedSendAccepted
<1>1. IInv => ReportedSendAccepted
  BY DEF IInv, SentAdmitted, SentRecorded, ReportedSendAccepted
<1>. QED  BY IInvInit, IInvStep, <1>1, PTL DEF Spec

=============================================================================
