------------------------------ MODULE RlnDemo ------------------------------
(***************************************************************************)
(* The RLN gasless demo, testing-tools/e2e/rln_gasless_demo.py, and the    *)
(* node it talks to.                                                       *)
(*                                                                         *)
(* main() is a sequential script of JSON-RPC calls.  Every call goes       *)
(* through rpc_call (lines 82-91), which returns the result, or a dict     *)
(* {"error": ...} both when the node answers with an error and when the    *)
(* request raises (timeout, connection reset).  A send whose answer is     *)
(* lost may therefore have been accepted by the node.  The node is the     *)
(* environment: it admits or rejects the karma user's transactions, keeps  *)
(* them in its pool, and mines them and the faucet's funding transaction   *)
(* at times of its own choosing.                                           *)
(*                                                                         *)
(* Data is abstracted to what the properties tell apart: a transaction is  *)
(* its nonce and its kind, "prior" (a zero-fee transaction left pending by *)
(* an earlier run of the demo), "gasless" (line 265) or "paid" (line 343). *)
(* Logging, docker log scraping and printing are left out: they change no  *)
(* state the script later reads.                                           *)
(***************************************************************************)
EXTENDS Naturals, FiniteSets

CONSTANTS
  FundPolls,   \* checks of wait_for_condition(has_balance, 30, 2): 30 / 2
  MinePolls,   \* checks of wait_for_condition(mined, 60, 2): 60 / 2
  None         \* no nonce read, no transaction sent, no exit code yet

ASSUME RlnAssumption ==
  /\ FundPolls \in Nat \ {0}
  /\ MinePolls \in Nat \ {0}

VARIABLES
  chainNonce,  \* the karma account's transaction count at "latest"
  pool,        \* the karma account's transactions pending at the node
  mined,       \* the karma account's transactions in blocks
  balance,     \* the karma account holds ETH
  fund,        \* the faucet's funding transaction: "none", "pending", "mined"
  accepted,    \* history: every karma transaction the node has admitted
  pc,          \* where main() is
  nonce,       \* main()'s local nonce
  sent,        \* sent_hash, as the transaction it names
  fallback,    \* used_paid_fallback
  left,        \* checks left in the current wait_for_condition
  rc           \* the exit status of the script

nodeVars == <<chainNonce, pool, mined, balance, fund, accepted>>
scriptVars == <<pc, nonce, sent, fallback, left, rc>>
vars == <<nodeVars, scriptVars>>

-----------------------------------------------------------------------------
(* Transactions and the node's admission rule.                             *)

Kinds == {"prior", "gasless", "paid"}
Txs == [n : Nat, kind : Kinds]

ASSUME NoneAssumption == None \notin Nat \cup Txs

\* gasPrice: 0 for the gasless intent (line 270), 8 for the paid fallback
\* (line 348).
Price(t) == IF t.kind = "paid" THEN 8 ELSE 0

\* The node admits a transaction whose nonce is not yet used on chain, that
\* can pay for itself, and that outbids a pending one with the same nonce.
Admissible(t) ==
  /\ t.n >= chainNonce
  /\ t.kind = "paid" => balance
  /\ \A p \in pool : p.n = t.n => Price(p) < Price(t)

\* eth_sendRawTransaction through rpc_call: the node admits t and its answer
\* arrives (onHash) or is lost (onError), or the node rejects t or never
\* receives it (onError).
Send(t, onHash, onError) ==
  \/ /\ Admissible(t)
     /\ pool' = {p \in pool : p.n # t.n} \cup {t}
     /\ accepted' = accepted \cup {t}
     /\ onHash \/ onError
  \/ /\ UNCHANGED <<pool, accepted>>
     /\ onError

\* Continue main() at p.
Goto(p) == pc' = p /\ UNCHANGED rc

\* int(rpc_call(...) or "0x0", 16) on an error dict raises TypeError; a
\* KeyError or sys.exit(1) ends the script the same way (lines 471-478).
Crash == pc' = "done" /\ rc' = 1

-----------------------------------------------------------------------------
(* Mutants: plausible bugs of main(), each replacing one action below.     *)

\* The gasless send treats any answer as a hash (no startswith("0x")).
SendGaslessAnyAnswer ==
  /\ pc = "send"
  /\ LET t == [n |-> nonce, kind |-> "gasless"]
     IN  Send(t, Goto("monitor") /\ sent' = t /\ fallback' = FALSE,
                 Goto("monitor") /\ sent' = t /\ fallback' = FALSE)
  /\ UNCHANGED <<chainNonce, mined, balance, fund, nonce, left>>

\* The funding wait checks once more after its time is up.
FundPollPastTimeout ==
  /\ pc = "fundWait"
  /\ left >= 0
  /\ \/ balance /\ Goto("refresh") /\ UNCHANGED left
     \/ left' = left - 1 /\ UNCHANGED <<pc, rc>>
  /\ UNCHANGED <<nodeVars, nonce, sent, fallback>>

\* The mining wait forgets to count its checks.
MinePollUncounted ==
  /\ pc = "mineWait"
  /\ left > 0
  /\ \/ sent \in mined /\ Goto("receipt") /\ UNCHANGED left
     \/ UNCHANGED <<pc, rc, left>>
  /\ UNCHANGED <<nodeVars, nonce, sent, fallback>>

-----------------------------------------------------------------------------
(* The script.                                                             *)

Init ==
  /\ chainNonce = 0
  /\ pool \in {{}, {[n |-> 0, kind |-> "prior"]}}
  /\ mined = {}
  /\ balance \in BOOLEAN
  /\ fund = "none"
  /\ accepted = pool
  /\ pc = "balance"
  /\ nonce = None
  /\ sent = None
  /\ fallback = FALSE
  /\ left = 0
  /\ rc = None

\* Lines 158-210: banner, broadcast addresses, step 1's health checks (which
\* only print), and step 2's eth_getBalance, whose value is only printed.
ReadBalance ==
  /\ pc = "balance"
  /\ Goto("nonce") \/ Crash
  /\ UNCHANGED <<nodeVars, nonce, sent, fallback, left>>

\* Lines 211-213: the nonce is the transaction count at "latest".
ReadNonce ==
  /\ pc = "nonce"
  /\ \/ Goto("estimate") /\ nonce' = chainNonce
     \/ Crash /\ UNCHANGED nonce
  /\ UNCHANGED <<nodeVars, sent, fallback, left>>

\* Lines 215-259: linea_estimateGas for the karma user must answer with a
\* dict, else sys.exit(1); the non-karma estimate is only printed.
Estimate ==
  /\ pc = "estimate"
  /\ Goto("send") \/ Crash
  /\ UNCHANGED <<nodeVars, nonce, sent, fallback, left>>

\* Lines 261-315: sign the zero-fee transaction with the nonce read above
\* and send it; a hash answer is the sent transaction, anything else goes
\* to the paid fallback.
SendGasless ==
  /\ pc = "send"
  /\ LET t == [n |-> nonce, kind |-> "gasless"]
     IN  Send(t, Goto("monitor") /\ sent' = t /\ fallback' = FALSE,
                 Goto("fbBalance") /\ UNCHANGED <<sent, fallback>>)
  /\ UNCHANGED <<chainNonce, mined, balance, fund, nonce, left>>

\* Lines 316-319: the balance decides whether to fund the user first.
FallbackBalance ==
  /\ pc = "fbBalance"
  /\ Goto(IF balance THEN "paid" ELSE "faucetNonce") \/ Crash
  /\ UNCHANGED <<nodeVars, nonce, sent, fallback, left>>

\* Lines 320-322: the faucet's own transaction count.
FaucetNonce ==
  /\ pc = "faucetNonce"
  /\ Goto("fund") \/ Crash
  /\ UNCHANGED <<nodeVars, nonce, sent, fallback, left>>

\* Lines 323-333: send the funding transaction; its answer is only printed.
FundSend ==
  /\ pc = "fund"
  /\ \/ fund = "none" /\ fund' = "pending"
     \/ UNCHANGED fund
  /\ Goto("fundWait")
  /\ left' = FundPolls
  /\ UNCHANGED <<chainNonce, pool, mined, balance, accepted, nonce, sent,
                 fallback>>

\* Lines 335-338 and wait_for_condition (120-130): has_balance() succeeds
\* once the node reports a balance; a failed call raises inside the check
\* and is swallowed at line 126, and the loop sleeps and checks again.
FundPoll ==
  /\ pc = "fundWait"
  /\ left > 0
  /\ \/ balance /\ Goto("refresh") /\ UNCHANGED left
     \/ left' = left - 1 /\ UNCHANGED <<pc, rc>>
  /\ UNCHANGED <<nodeVars, nonce, sent, fallback>>

\* Line 130: the wait gives up and returns False; line 338 ignores it.
FundGiveUp ==
  /\ pc = "fundWait"
  /\ left = 0
  /\ Goto("refresh")
  /\ UNCHANGED <<nodeVars, nonce, sent, fallback, left>>

\* Lines 339-342: the nonce is read again, at "latest", and the user is
\* reported funded.
RefreshNonce ==
  /\ pc = "refresh"
  /\ \/ Goto("paid") /\ nonce' = chainNonce
     \/ Crash /\ UNCHANGED nonce
  /\ UNCHANGED <<nodeVars, sent, fallback, left>>

\* Lines 343-365: sign and send the paid transaction with the local nonce;
\* anything but a hash is sys.exit(1).
SendPaid ==
  /\ pc = "paid"
  /\ LET t == [n |-> nonce, kind |-> "paid"]
     IN  Send(t, Goto("monitor") /\ sent' = t /\ fallback' = TRUE,
                 Crash /\ UNCHANGED <<sent, fallback>>)
  /\ UNCHANGED <<chainNonce, mined, balance, fund, nonce, left>>

\* Lines 367-427: log scraping and txpool_status, which only print, and the
\* sleeps during which the node keeps working.
Monitor ==
  /\ pc = "monitor"
  /\ Goto("mineWait")
  /\ left' = MinePolls
  /\ UNCHANGED <<nodeVars, nonce, sent, fallback>>

\* Lines 428-432 and wait_for_condition: mined() is true once the receipt of
\* sent_hash has a block number; a failed call counts as not yet.
MinePoll ==
  /\ pc = "mineWait"
  /\ left > 0
  /\ \/ sent \in mined /\ Goto("receipt") /\ UNCHANGED left
     \/ left' = left - 1 /\ UNCHANGED <<pc, rc>>
  /\ UNCHANGED <<nodeVars, nonce, sent, fallback>>

\* Line 130: the mining wait gives up.
MineGiveUp ==
  /\ pc = "mineWait"
  /\ left = 0
  /\ Goto("finalCheck")
  /\ UNCHANGED <<nodeVars, nonce, sent, fallback, left>>

\* Lines 433-453 and the summary (459-467): the receipt is fetched again;
\* an error dict has no "blockNumber" and the KeyError ends the script.
Receipt ==
  /\ pc = "receipt"
  /\ \/ pc' = "done" /\ rc' = 0
     \/ Crash
  /\ UNCHANGED <<nodeVars, nonce, sent, fallback, left>>

\* Lines 454-467: the receipt, if any, is printed, then the summary.
FinalCheck ==
  /\ pc = "finalCheck"
  /\ pc' = "done"
  /\ rc' = 0
  /\ UNCHANGED <<nodeVars, nonce, sent, fallback, left>>

Script ==
  \/ ReadBalance \/ ReadNonce \/ Estimate \/ SendGasless \/ FallbackBalance
  \/ FaucetNonce \/ FundSend \/ FundPoll \/ FundGiveUp \/ RefreshNonce
  \/ SendPaid \/ Monitor \/ MinePoll \/ MineGiveUp \/ Receipt \/ FinalCheck

-----------------------------------------------------------------------------
(* The node.                                                               *)

\* The sequencer mines the pending transaction with the next nonce.
MineTx ==
  /\ \E t \in pool :
       /\ t.n = chainNonce
       /\ mined' = mined \cup {t}
       /\ pool' = pool \ {t}
       /\ chainNonce' = chainNonce + 1
  /\ UNCHANGED <<balance, fund, accepted, scriptVars>>

\* The faucet's funding transaction is mined.
MineFund ==
  /\ fund = "pending"
  /\ fund' = "mined"
  /\ balance' = TRUE
  /\ UNCHANGED <<chainNonce, pool, mined, accepted, scriptVars>>

Node == MineTx \/ MineFund

Next == Script \/ Node

\* The script always takes its next step; the node mines when it likes.
Spec == Init /\ [][Next]_vars /\ WF_vars(Script)

-----------------------------------------------------------------------------
(* Properties.                                                             *)

\* Every variable has its type.
TypeOK ==
  /\ chainNonce \in Nat
  /\ pool \subseteq Txs /\ mined \subseteq Txs /\ accepted \subseteq Txs
  /\ balance \in BOOLEAN
  /\ fund \in {"none", "pending", "mined"}
  /\ pc \in {"balance", "nonce", "estimate", "send", "fbBalance",
             "faucetNonce", "fund", "fundWait", "refresh", "paid", "monitor",
             "mineWait", "receipt", "finalCheck", "done"}
  /\ nonce \in Nat \cup {None}
  /\ sent \in Txs \cup {None}
  /\ fallback \in BOOLEAN
  /\ left \in 0 .. (IF FundPolls > MinePolls THEN FundPolls ELSE MinePolls)
  /\ rc \in {None, 0, 1}

\* When the demo exits 0, the transaction it reports as sent is one the
\* node admitted, of the kind used_paid_fallback says (lines 305-365).
ReportedSendAccepted ==
  pc = "done" /\ rc = 0 =>
    /\ sent \in accepted
    /\ sent.kind = IF fallback THEN "paid" ELSE "gasless"

\* The demo ends: both waits are bounded and every call returns.
DemoTerminates == <>(pc = "done")

\* The summary (lines 459-467) reports the gasless path as working, so an
\* exit 0 should mean the sent transaction was mined.
SummaryOnlyIfMined == pc = "done" /\ rc = 0 => sent \in mined

\* Line 466 says the node rejected the zero-fee submission whenever the paid
\* fallback was used.
FallbackOnlyAfterRejection ==
  fallback => \A t \in accepted : t.kind # "gasless"

=============================================================================
