-------------------------- MODULE Payments_proofs ---------------------------
(***************************************************************************)
(* What any number of concurrent payment calls may be told, for any number *)
(* of retries, addresses and arguments.                                    *)
(***************************************************************************)
EXTENDS Payments, Bytes_proofs

\* Every call has a place in each table, and an answer has a status and a body.
Tables ==
    /\ op \in [Calls -> Ops \cup {"none"}]
    /\ pc \in [Calls -> {"idle", "sign", "request", "done"}]
    /\ reply = [c \in Calls |-> reply[c]]
    /\ result = [c \in Calls |-> result[c]]
    /\ seen = [c \in Calls |-> seen[c]]

\* The chain and the service's account of the top-up.
AccountOK ==
    /\ transfer \in {"sent", "final", "failed"}
    /\ account \in {"unseen", "pending", "credited", "failed"}

\* A call that asks something is one of the operations, and one that has asked
\* nothing has no answer.
AsksSomething(c) ==
    /\ pc[c] = "request" => op[c] \in Ops
    /\ pc[c] = "sign" => op[c] = "share"
    /\ pc[c] \in {"idle", "sign"} => reply[c] = None

\* What a read could find now, it could have found since it began.
SeenIsCurrent(c) == pc[c] = "request" => Readable(op[c], address, account) \subseteq seen[c]

\* An answer says what the service has decided, or what it was while the call
\* was in progress.
SaysTheTruth(c, status, body) ==
    /\ op[c] = "submit" => /\ body = <<"credited">> => account = "credited"
                           /\ body = <<"failed">> => account = "failed"
    /\ op[c] = "fund" => body = None \/ body \in seen[c]
    /\ op[c] = "balance" => /\ status # 202
                            /\ status = 404 => <<0>> \in seen[c]
                            /\ body = None \/ body \in seen[c]

ReplyIsTrue(c) ==
    reply[c] # None =>
        /\ reply[c] = <<[status |-> reply[c][1].status, body |-> reply[c][1].body]>>
        /\ SaysTheTruth(c, reply[c][1].status, reply[c][1].body)

\* A call has been told nothing before it has ended, and then the truth.
ResultIsTrue(c) ==
    /\ pc[c] # "done" => result[c] = Nothing
    /\ result[c].kind = "confirmed" => account = "credited"
    /\ result[c].kind = "failed" => account = "failed"
    /\ result[c].kind \in {"address", "winc"} =>
        \/ result[c].value \in seen[c]
        \/ /\ op[c] = "balance" /\ reply[c][1].status = 200 /\ reply[c][1].body = None
           /\ result[c].value = <<0>>

CallOK(c) == AsksSomething(c) /\ SeenIsCurrent(c) /\ ReplyIsTrue(c) /\ ResultIsTrue(c)

PayIInv == Tables /\ AccountOK /\ \A c \in Calls : CallOK(c)

LEMMA PayInitOK == Init => PayIInv
  BY DEF Init, PayIInv, Tables, AccountOK, CallOK, AsksSomething, SeenIsCurrent, ReplyIsTrue, SaysTheTruth,
         ResultIsTrue, Nothing, None

\* A call that ends with an error is told nothing of the account.
LEMMA ErrorSaysNothing ==
  /\ Error.kind = "error" /\ Nothing.kind = "none"
  BY DEF Error, Nothing

\* Only a report of a transaction is told of its status, and only the reads of
\* the address and the balance are told those.
LEMMA ReadSays ==
  ASSUME NEW o \in Ops, NEW a
  PROVE  /\ Read(o, a).kind = "confirmed" => o = "submit" /\ a.body = <<"credited">>
         /\ Read(o, a).kind = "failed" => o = "submit" /\ a.body = <<"failed">>
         /\ Read(o, a).kind = "address" => o = "fund" /\ a.body # None /\ Read(o, a).value = a.body
         /\ Read(o, a).kind = "winc" =>
              /\ o = "balance" /\ a.status \in {200, 202, 404}
              /\ Read(o, a).value = IF a.status = 404 \/ a.body = None THEN <<0>> ELSE a.body
  <1>1. CASE a.status \notin Expected(o)
    <2>1. Read(o, a) = Error
      BY <1>1 DEF Read
    <2> QED BY <2>1 DEF Error
  <1>2. CASE a.status \in Expected(o)
    <2> USE <1>2 DEF Resolved, Error
    <2>1. CASE o = "balance"
      <3>1. Read(o, a) = Balance(a.status, a.body)
        BY <2>1 DEF Read
      <3>2. a.status \in {200, 202, 404}
        BY <2>1 DEF Expected
      <3> QED BY <2>1, <3>1, <3>2 DEF Balance
    <2>2. CASE o \in {"quota", "limit", "cost", "winc", "checkout", "share"}
      BY <2>2 DEF Read, FreeQuota, FreeUploadLimitBytes, UploadCost, WincForToken, CheckoutResult,
                  CreatedApproval
    <2>3. CASE o = "submit"
      <3>1. Read(o, a) = FundTransactionResult(a.status, a.body)
        BY <2>3 DEF Read
      <3> QED BY <2>3, <3>1 DEF FundTransactionResult
    <2>4. CASE o = "fund"
      BY <2>4 DEF Read, FundingAddress
    <2> QED BY <2>1, <2>2, <2>3, <2>4 DEF Ops, Reads
  <1> QED BY <1>1, <1>2

---------------------------------------------------------------------------
(* The steps of a call *)

\* A step of another call leaves this one alone.
LEMMA Untouched ==
  ASSUME NEW d \in Calls, CallOK(d),
         op'[d] = op[d], pc'[d] = pc[d], reply'[d] = reply[d], result'[d] = result[d], seen'[d] = seen[d],
         address' = address, account' = account
  PROVE  CallOK(d)'
  BY DEF CallOK, AsksSomething, SeenIsCurrent, ReplyIsTrue, SaysTheTruth, ResultIsTrue

\* An error is no claim.
LEMMA EndsWithError ==
  ASSUME NEW c \in Calls, pc'[c] = "done", result'[c] = Error, ReplyIsTrue(c)'
  PROVE  CallOK(c)'
  BY ErrorSaysNothing DEF CallOK, AsksSomething, SeenIsCurrent, ResultIsTrue

LEMMA BeginReadKeeps ==
  ASSUME PayIInv, NEW c \in Calls, BeginRead(c)
  PROVE  PayIInv'
  <1>1. PICK o \in Reads \cup {"submit"} :
          /\ op' = [op EXCEPT ![c] = o]
          /\ \/ /\ pc' = [pc EXCEPT ![c] = "request"]
                /\ seen' = [seen EXCEPT ![c] = Readable(o, address, account)]
                /\ result' = result
             \/ Settle(c, Error) /\ seen' = seen
    BY DEF BeginRead
  <1>2. UNCHANGED <<reply, address, transfer, account>>
    BY DEF BeginRead, serviceVars
  <1>3. pc[c] = "idle" /\ reply[c] = None /\ result[c] = Nothing
    BY DEF BeginRead, PayIInv, CallOK, AsksSomething, ResultIsTrue
  <1>4. Tables' /\ AccountOK'
    BY <1>1, <1>2 DEF PayIInv, Tables, AccountOK, Settle, Ops
  <1>5. ASSUME NEW d \in Calls, d # c  PROVE CallOK(d)'
    BY <1>1, <1>2, <1>5, Untouched DEF PayIInv, Tables, Settle
  <1>6. CallOK(c)'
    <2>1. CASE pc' = [pc EXCEPT ![c] = "request"]
      <3>1. pc'[c] = "request" /\ op'[c] = o /\ result'[c] = Nothing /\ reply'[c] = None
        BY <1>1, <1>2, <1>3, <2>1 DEF PayIInv, Tables, Settle
      <3>2. seen'[c] = Readable(o, address, account)
        <4>1. pc' # [pc EXCEPT ![c] = "done"]
          BY <3>1 DEF PayIInv, Tables
        <4> QED BY <4>1, <1>1 DEF PayIInv, Tables, Settle
      <3> QED BY <1>2, <3>1, <3>2, ErrorSaysNothing
              DEF CallOK, AsksSomething, SeenIsCurrent, ReplyIsTrue, SaysTheTruth, ResultIsTrue, Ops
    <2>2. CASE Settle(c, Error)
      <3>1. pc'[c] = "done" /\ result'[c] = Error /\ reply'[c] = None
        BY <1>2, <1>3, <2>2 DEF PayIInv, Tables, Settle
      <3> QED BY <3>1, EndsWithError DEF ReplyIsTrue, SaysTheTruth
    <2> QED BY <1>1, <2>1, <2>2
  <1> QED BY <1>4, <1>5, <1>6 DEF PayIInv

LEMMA BeginShareKeeps ==
  ASSUME PayIInv, NEW c \in Calls, NEW a, NEW now, BeginShare(c, a, now)
  PROVE  PayIInv'
  <1>1. op' = [op EXCEPT ![c] = "share"]
    BY DEF BeginShare
  <1>2. UNCHANGED <<reply, address, transfer, account, seen>>
    BY DEF BeginShare, serviceVars
  <1>3. pc[c] = "idle" /\ reply[c] = None /\ result[c] = Nothing
    BY DEF BeginShare, PayIInv, CallOK, AsksSomething, ResultIsTrue
  <1>4. \/ pc' = [pc EXCEPT ![c] = "sign"] /\ result' = result
        \/ Settle(c, Error)
    BY DEF BeginShare
  <1>5. Tables' /\ AccountOK'
    BY <1>1, <1>2, <1>4 DEF PayIInv, Tables, AccountOK, Settle, Ops
  <1>6. ASSUME NEW d \in Calls, d # c  PROVE CallOK(d)'
    BY <1>1, <1>2, <1>4, <1>6, Untouched DEF PayIInv, Tables, Settle
  <1>7. CallOK(c)'
    <2>1. CASE pc' = [pc EXCEPT ![c] = "sign"] /\ result' = result
      <3>1. pc'[c] = "sign" /\ op'[c] = "share" /\ result'[c] = Nothing /\ reply'[c] = None
        BY <1>1, <1>2, <1>3, <2>1 DEF PayIInv, Tables
      <3> QED BY <3>1, ErrorSaysNothing DEF CallOK, AsksSomething, SeenIsCurrent, ReplyIsTrue, SaysTheTruth, ResultIsTrue
    <2>2. CASE Settle(c, Error)
      <3>1. pc'[c] = "done" /\ result'[c] = Error /\ reply'[c] = None
        BY <1>2, <1>3, <2>2 DEF PayIInv, Tables, Settle
      <3> QED BY <3>1, EndsWithError DEF ReplyIsTrue, SaysTheTruth
    <2> QED BY <1>4, <2>1, <2>2
  <1> QED BY <1>5, <1>6, <1>7 DEF PayIInv

LEMMA ShareSignedKeeps ==
  ASSUME PayIInv, NEW c \in Calls, ShareSigned(c)
  PROVE  PayIInv'
  <1>1. UNCHANGED <<op, reply, address, transfer, account, seen>>
    BY DEF ShareSigned, serviceVars
  <1>2. pc[c] = "sign" /\ op[c] = "share" /\ reply[c] = None /\ result[c] = Nothing
    BY DEF ShareSigned, PayIInv, CallOK, AsksSomething, ResultIsTrue
  <1>3. \/ pc' = [pc EXCEPT ![c] = "request"] /\ result' = result
        \/ Settle(c, Error)
    BY DEF ShareSigned
  <1>4. Tables' /\ AccountOK'
    BY <1>1, <1>3 DEF PayIInv, Tables, AccountOK, Settle
  <1>5. ASSUME NEW d \in Calls, d # c  PROVE CallOK(d)'
    BY <1>1, <1>3, <1>5, Untouched DEF PayIInv, Tables, Settle
  <1>6. CallOK(c)'
    <2>1. CASE pc' = [pc EXCEPT ![c] = "request"] /\ result' = result
      <3>1. pc'[c] = "request" /\ op'[c] = "share" /\ result'[c] = Nothing /\ reply'[c] = None
        BY <1>1, <1>2, <2>1 DEF PayIInv, Tables
      <3>2. Readable(op'[c], address', account') = {}
        BY <3>1 DEF Readable
      <3> QED BY <3>1, <3>2, ErrorSaysNothing
              DEF CallOK, AsksSomething, SeenIsCurrent, ReplyIsTrue, SaysTheTruth, ResultIsTrue, Ops
    <2>2. CASE Settle(c, Error)
      <3>1. pc'[c] = "done" /\ result'[c] = Error /\ reply'[c] = None
        BY <1>1, <1>2, <2>2 DEF PayIInv, Tables, Settle
      <3> QED BY <3>1, EndsWithError DEF ReplyIsTrue, SaysTheTruth
    <2> QED BY <1>3, <2>1, <2>2
  <1> QED BY <1>4, <1>5, <1>6 DEF PayIInv

LEMMA AnsweredKeeps ==
  ASSUME PayIInv, NEW c \in Calls, Answered(c)
  PROVE  PayIInv'
  <1>1. UNCHANGED <<op, address, transfer, account, seen>>
    BY DEF Answered, serviceVars
  <1>2. pc[c] = "request" /\ reply[c] # None /\ op[c] \in Ops /\ result[c] = Nothing
    BY DEF Answered, PayIInv, CallOK, AsksSomething, ResultIsTrue
  <1>3. PICK body \in {reply[c][1].body, None} :
          /\ reply' = [reply EXCEPT ![c][1].body = body]
          /\ Settle(c, Read(op[c], reply'[c][1]))
    BY DEF Answered
  <1> DEFINE a == [status |-> reply[c][1].status, body |-> body]
  <1>4. reply[c] = <<[status |-> reply[c][1].status, body |-> reply[c][1].body]>>
    BY <1>2 DEF PayIInv, CallOK, ReplyIsTrue, SaysTheTruth
  <1>5. reply'[c] = <<a>> /\ a.status = reply[c][1].status /\ a.body = body
    BY <1>3, <1>4 DEF PayIInv, Tables
  <1>6. pc'[c] = "done" /\ result'[c] = Read(op[c], a)
    BY <1>3, <1>5 DEF PayIInv, Tables, Settle
  <1>7. Tables' /\ AccountOK'
    <2>1. reply' = [reply EXCEPT ![c] = reply'[c]]
      BY <1>3 DEF PayIInv, Tables
    <2>2. pc' = [pc EXCEPT ![c] = "done"] /\ result' = [result EXCEPT ![c] = result'[c]]
      BY <1>3 DEF PayIInv, Tables, Settle
    <2> QED BY <1>1, <2>1, <2>2 DEF PayIInv, Tables, AccountOK
  <1>8. ASSUME NEW d \in Calls, d # c  PROVE CallOK(d)'
    BY <1>1, <1>3, <1>8, Untouched DEF PayIInv, Tables, Settle
  <1>9. ReplyIsTrue(c)
    BY DEF PayIInv, CallOK
  <1> HIDE DEF a
  <1>10. None # <<"credited">> /\ None # <<"failed">>
    BY DEF None
  <1>11. ReplyIsTrue(c)'
    <2>1. reply'[c][1] = a /\ reply'[c] # None
      BY <1>5 DEF None
    <2>2. SaysTheTruth(c, a.status, body)
      BY <1>2, <1>3, <1>5, <1>9, <1>10 DEF ReplyIsTrue, SaysTheTruth
    <2>3. reply'[c] = <<[status |-> reply'[c][1].status, body |-> reply'[c][1].body]>>
      BY <1>5 DEF a
    <2> QED BY <1>1, <1>5, <2>1, <2>2, <2>3 DEF ReplyIsTrue, SaysTheTruth
  <1>12. ResultIsTrue(c)'
    <2>1. /\ Read(op[c], a).kind = "confirmed" => op[c] = "submit" /\ a.body = <<"credited">>
          /\ Read(op[c], a).kind = "failed" => op[c] = "submit" /\ a.body = <<"failed">>
          /\ Read(op[c], a).kind = "address" =>
               op[c] = "fund" /\ a.body # None /\ Read(op[c], a).value = a.body
          /\ Read(op[c], a).kind = "winc" =>
               /\ op[c] = "balance" /\ a.status \in {200, 202, 404}
               /\ Read(op[c], a).value = IF a.status = 404 \/ a.body = None THEN <<0>> ELSE a.body
      BY <1>2, ReadSays
    <2>2. reply'[c][1] = a /\ reply'[c] # None
      BY <1>5 DEF None
    <2>3. SaysTheTruth(c, a.status, a.body)
      BY <1>1, <1>11, <2>2 DEF ReplyIsTrue, SaysTheTruth
    <2>4. Read(op[c], a).kind \in {"address", "winc"} =>
            \/ Read(op[c], a).value \in seen[c]
            \/ op[c] = "balance" /\ a.status = 200 /\ a.body = None /\ Read(op[c], a).value = <<0>>
      BY <2>1, <2>3 DEF SaysTheTruth
    <2> QED BY <1>1, <1>6, <2>1, <2>2, <2>3, <2>4 DEF ResultIsTrue, SaysTheTruth
  <1>13. CallOK(c)'
    BY <1>6, <1>11, <1>12 DEF CallOK, AsksSomething, SeenIsCurrent
  <1> QED BY <1>7, <1>8, <1>13 DEF PayIInv

LEMMA FailsKeeps ==
  ASSUME PayIInv, NEW c \in Calls, Fails(c)
  PROVE  PayIInv'
  <1>1. UNCHANGED <<op, address, transfer, account, seen>>
    BY DEF Fails, serviceVars
  <1>2. pc[c] = "request" /\ result[c] = Nothing
    BY DEF Fails, PayIInv, CallOK, ResultIsTrue
  <1>3. reply' = [reply EXCEPT ![c] = None] /\ (UNCHANGED <<pc, result>> \/ Settle(c, Error))
    BY DEF Fails
  <1>4. Tables' /\ AccountOK'
    BY <1>1, <1>3 DEF PayIInv, Tables, AccountOK, Settle
  <1>5. ASSUME NEW d \in Calls, d # c  PROVE CallOK(d)'
    BY <1>1, <1>3, <1>5, Untouched DEF PayIInv, Tables, Settle
  <1>6. reply'[c] = None
    BY <1>3 DEF PayIInv, Tables
  <1>7. CASE UNCHANGED <<pc, result>>
    <2>1. CallOK(c)'
      BY <1>1, <1>2, <1>6, <1>7, ErrorSaysNothing
         DEF PayIInv, CallOK, AsksSomething, SeenIsCurrent, ReplyIsTrue, SaysTheTruth, ResultIsTrue
    <2> QED BY <1>4, <1>5, <2>1 DEF PayIInv
  <1>8. CASE Settle(c, Error)
    <2>1. pc'[c] = "done" /\ result'[c] = Error
      BY <1>8 DEF PayIInv, Tables, Settle
    <2>2. CallOK(c)'
      BY <1>6, <2>1, EndsWithError DEF ReplyIsTrue, SaysTheTruth
    <2> QED BY <1>4, <1>5, <2>2 DEF PayIInv
  <1> QED BY <1>3, <1>7, <1>8

---------------------------------------------------------------------------
(* The steps of the service and the chain *)

\* What the service has decided of the top-up it does not take back.
LEMMA DecidedForGood ==
  ASSUME AccountOK
  PROVE  /\ AccountAfter \in {"pending", "credited", "failed"}
         /\ account \in {"credited", "failed"} => AccountAfter = account
  BY DEF AccountOK, AccountAfter

\* When the service's state moves, the reads in progress could read it.
LEMMA ServiceMoves ==
  ASSUME PayIInv, NEW d \in Calls, UNCHANGED <<op, pc, result>>, reply'[d] = reply[d],
         account \in {"credited", "failed"} => account' = account,
         Observed(address', account') \/ UNCHANGED <<seen, address, account>>
  PROVE  CallOK(d)'
  <1>1. CallOK(d)
    BY DEF PayIInv
  <1>2. seen[d] \subseteq seen'[d] /\ SeenIsCurrent(d)'
    <2>1. CASE Observed(address', account')
      BY <2>1 DEF Observed, SeenIsCurrent
    <2>2. CASE UNCHANGED <<seen, address, account>>
      BY <1>1, <2>2 DEF CallOK, SeenIsCurrent
    <2> QED BY <2>1, <2>2
  <1>3. AsksSomething(d)' /\ ReplyIsTrue(d)' /\ ResultIsTrue(d)'
    BY <1>1, <1>2 DEF CallOK, AsksSomething, ReplyIsTrue, SaysTheTruth, ResultIsTrue
  <1> QED BY <1>2, <1>3 DEF CallOK

\* The tables change with their contents alone.
LEMMA ServiceTables ==
  ASSUME PayIInv, UNCHANGED <<op, pc, result>>, reply' = [d \in Calls |-> reply'[d]],
         transfer' \in {"sent", "final", "failed"},
         account' \in {"unseen", "pending", "credited", "failed"},
         Observed(address', account') \/ UNCHANGED seen
  PROVE  Tables' /\ AccountOK'
  BY DEF PayIInv, Tables, AccountOK, Observed

\* An answer replaces the one on its way, of a request that waits for it.
LEMMA Replies ==
  ASSUME PayIInv, NEW c \in Calls, NEW status, NEW body, Reply(c, status, body)
  PROVE  /\ reply' = [d \in Calls |-> reply'[d]]
         /\ \A d \in Calls \ {c} : reply'[d] = reply[d]
         /\ pc[c] # "request" => reply'[c] = reply[c]
         /\ pc[c] = "request" => reply'[c] = <<[status |-> status, body |-> body]>>
  BY DEF PayIInv, Tables, Reply

\* A call that is in progress and has a true answer on its way.
LEMMA ReplyKeeps ==
  ASSUME PayIInv, NEW c \in Calls, NEW status, NEW body, Reply(c, status, body),
         UNCHANGED <<op, pc, result>>, transfer' = transfer,
         account' \in {"unseen", "pending", "credited", "failed"},
         account \in {"credited", "failed"} => account' = account,
         Observed(address', account') \/ UNCHANGED <<seen, address, account>>,
         pc[c] = "request" => SaysTheTruth(c, status, body)'
  PROVE  PayIInv'
  <1>1. Tables' /\ AccountOK'
    BY Replies, ServiceTables DEF PayIInv, AccountOK
  <1>2. ASSUME NEW d \in Calls, d # c \/ pc[c] # "request"  PROVE CallOK(d)'
    <2>1. reply'[d] = reply[d]
      BY <1>2, Replies
    <2> QED BY <2>1, ServiceMoves
  <1>3. CASE pc[c] = "request"
    <2>1. reply'[c] = <<[status |-> status, body |-> body]>>
      BY <1>3, Replies
    <2>2. /\ reply'[c][1].status = status /\ reply'[c][1].body = body
          /\ reply'[c] = <<[status |-> reply'[c][1].status, body |-> reply'[c][1].body]>>
      BY <2>1
    <2>3. ReplyIsTrue(c)'
      BY <1>3, <2>2 DEF ReplyIsTrue, SaysTheTruth
    <2>4. CallOK(c)
      BY DEF PayIInv
    <2>5. ResultIsTrue(c)' /\ AsksSomething(c)'
      BY <1>3, <2>4, ErrorSaysNothing DEF CallOK, ResultIsTrue, AsksSomething
    <2>6. SeenIsCurrent(c)'
      <3>1. CASE Observed(address', account')
        BY <3>1 DEF Observed, SeenIsCurrent
      <3>2. CASE UNCHANGED <<seen, address, account>>
        BY <2>4, <3>2 DEF CallOK, SeenIsCurrent
      <3> QED BY <3>1, <3>2
    <2>7. CallOK(c)'
      BY <2>3, <2>5, <2>6 DEF CallOK
    <2> QED BY <1>1, <1>2, <2>7 DEF PayIInv
  <1> QED BY <1>1, <1>2, <1>3 DEF PayIInv

LEMMA HandlesReadKeeps ==
  ASSUME PayIInv, NEW c \in Calls, HandlesRead(c)
  PROVE  PayIInv'
  <1>1. UNCHANGED <<op, pc, result, address, transfer, account, seen>> /\ pc[c] = "request"
    BY DEF HandlesRead, serviceVars
  <1>2. Readable(op[c], address, account) \subseteq seen[c]
    BY <1>1 DEF PayIInv, CallOK, SeenIsCurrent
  <1>3. AccountOK
    BY DEF PayIInv
  <1>4. CASE op[c] = "fund"
    <2>1. Reply(c, 200, <<address>>) /\ <<address>> \in seen[c]
      BY <1>2, <1>4 DEF HandlesRead, Readable
    <2> QED BY <1>1, <1>3, <1>4, <2>1, ReplyKeeps DEF AccountOK, SaysTheTruth
  <1>5. CASE op[c] = "balance"
    <2>1. (IF account = "credited" THEN <<1>> ELSE <<0>>) \in seen[c]
      BY <1>2, <1>5 DEF Readable
    <2>2. CASE account = "credited" /\ Reply(c, 200, <<1>>)
      BY <1>1, <1>3, <1>5, <2>1, <2>2, ReplyKeeps DEF AccountOK, SaysTheTruth
    <2>3. CASE account # "credited" /\ Reply(c, 404, None)
      BY <1>1, <1>3, <1>5, <2>1, <2>3, ReplyKeeps DEF AccountOK, SaysTheTruth
    <2>4. CASE Reply(c, 503, None)
      BY <1>1, <1>3, <1>5, <2>4, ReplyKeeps DEF AccountOK, SaysTheTruth
    <2> QED BY <1>5, <2>2, <2>3, <2>4 DEF HandlesRead
  <1>6. CASE op[c] \in {"quota", "limit", "cost", "winc", "checkout"}
    <2>1. PICK status, body : Reply(c, status, body)
      BY <1>6 DEF HandlesRead
    <2> QED BY <1>1, <1>3, <1>6, <2>1, ReplyKeeps DEF AccountOK, SaysTheTruth
  <1> QED BY <1>4, <1>5, <1>6 DEF HandlesRead, Reads

LEMMA HandlesSubmitKeeps ==
  ASSUME PayIInv, NEW c \in Calls, HandlesSubmit(c)
  PROVE  PayIInv'
  <1>1. /\ UNCHANGED <<op, pc, result, address, transfer>> /\ op[c] = "submit"
        /\ account' = AccountAfter /\ Observed(address', account')
    BY DEF HandlesSubmit
  <1>2. /\ account' \in {"pending", "credited", "failed"}
        /\ account \in {"credited", "failed"} => account' = account
    BY <1>1, DecidedForGood DEF PayIInv
  <1>3. CASE Reply(c, 200, <<account'>>)
    <2>1. /\ <<account'>> = <<"credited">> => account' = "credited"
          /\ <<account'>> = <<"failed">> => account' = "failed"
      OBVIOUS
    <2> QED BY <1>1, <1>2, <1>3, <2>1, ReplyKeeps DEF SaysTheTruth
  <1>4. CASE Reply(c, 202, None)
    BY <1>1, <1>2, <1>4, ReplyKeeps DEF None, SaysTheTruth
  <1> QED BY <1>3, <1>4 DEF HandlesSubmit

LEMMA HandlesShareKeeps ==
  ASSUME PayIInv, NEW c \in Calls, HandlesShare(c)
  PROVE  PayIInv'
  <1>1. UNCHANGED <<op, pc, result, address, transfer, account, seen>> /\ op[c] = "share"
    BY DEF HandlesShare
  <1>2. PICK status, body : Reply(c, status, body)
    BY DEF HandlesShare
  <1> QED BY <1>1, <1>2, ReplyKeeps DEF PayIInv, AccountOK, SaysTheTruth

\* Steps of the service that answer nobody.
LEMMA ServiceAlone ==
  ASSUME PayIInv, UNCHANGED callVars, transfer' \in {"sent", "final", "failed"},
         account' \in {"unseen", "pending", "credited", "failed"},
         account \in {"credited", "failed"} => account' = account,
         Observed(address', account') \/ UNCHANGED <<seen, address, account>>
  PROVE  PayIInv'
  <1>1. UNCHANGED <<op, pc, result, reply>>
    BY DEF callVars
  <1>2. Tables' /\ AccountOK'
    BY <1>1, ServiceTables DEF PayIInv, Tables
  <1>3. \A d \in Calls : CallOK(d)'
    BY <1>1, ServiceMoves
  <1> QED BY <1>2, <1>3 DEF PayIInv

LEMMA PayNextKeeps == PayIInv /\ [Next]_vars => PayIInv'
  <1> SUFFICES ASSUME PayIInv, [Next]_vars  PROVE PayIInv'
    OBVIOUS
  <1>1. AccountOK
    BY DEF PayIInv
  <1>2. ASSUME NEW c \in Calls, CallStep(c)  PROVE PayIInv'
    BY <1>2, ShareSignedKeeps, AnsweredKeeps, FailsKeeps DEF CallStep
  <1>3. ASSUME NEW c \in Calls, HandlesRead(c) \/ HandlesSubmit(c) \/ HandlesShare(c)  PROVE PayIInv'
    BY <1>3, HandlesReadKeeps, HandlesSubmitKeeps, HandlesShareKeeps
  <1>4. CASE AddressRotates
    BY <1>1, <1>4, ServiceAlone DEF AddressRotates, AccountOK
  <1>5. CASE TransferEnds
    BY <1>1, <1>5, ServiceAlone DEF TransferEnds, AccountOK
  <1>6. CASE ServiceChecks
    BY <1>1, <1>6, ServiceAlone, DecidedForGood DEF ServiceChecks, AccountOK
  <1>7. CASE UNCHANGED vars
    BY <1>1, <1>7, ServiceAlone DEF vars, serviceVars, AccountOK
  <1> QED BY <1>2, <1>3, <1>4, <1>5, <1>6, <1>7, BeginReadKeeps, BeginShareKeeps
          DEF Next, ServiceStep, AllSettled

LEMMA PaymentInvariant == Spec => []PayIInv
  <1> QED BY PayInitOK, PayNextKeeps, PTL DEF Spec

---------------------------------------------------------------------------
(* The approvals *)

ShareTables ==
    /\ posted \in [Calls -> BOOLEAN]
    /\ share = [c \in Calls |-> share[c]]
    /\ item = [c \in Calls |-> item[c]]

\* The item of a call is made from what it was called with, options that were
\* checked, and nothing is posted before it is.
ItemOK(c) ==
    /\ item[c] # None =>
         /\ op[c] = "share" /\ share[c][1] \in Arguments["share"] /\ Allowed("share", share[c][1])
         /\ item[c] = <<ApprovalItem(c, share[c][1], share[c][2])>>
    /\ pc[c] = "idle" => item[c] = None
    /\ pc[c] \in {"idle", "sign"} => ~posted[c]
    /\ op[c] = "share" /\ (pc[c] \in {"sign", "request"} \/ posted[c]) => item[c] # None

\* The service answers a share with its item, which it has.
AnswerOK(c) ==
    reply[c] # None /\ op[c] = "share" /\ reply[c][1].body # None =>
        reply[c][1].body = item[c] /\ item[c][1] \in approvals

\* And what the caller is given is that.
GivenOK(c) ==
    result[c].kind = "approval" =>
        op[c] = "share" /\ item[c] # None /\ result[c].value = item[c] /\ item[c][1] \in approvals

ShareOK(c) == ItemOK(c) /\ AnswerOK(c) /\ GivenOK(c)

ShareIInv == ShareTables /\ \A c \in Calls : ShareOK(c)

LEMMA ShareInitOK == Init => ShareIInv
  BY DEF Init, ShareIInv, ShareTables, ShareOK, ItemOK, AnswerOK, GivenOK, Nothing, None

\* Only a share is told of an approval, and it is what the answer holds.
LEMMA ReadApproves ==
  ASSUME NEW o \in Ops, NEW a, Read(o, a).kind = "approval"
  PROVE  o = "share" /\ a.body # None /\ Read(o, a).value = a.body
  <1>1. a.status \in Expected(o)
    <2>1. Error.kind # "approval"
      BY DEF Error
    <2> QED BY <2>1 DEF Read
  <1> USE <1>1 DEF Resolved, Error
  <1>2. ASSUME o \in {"quota", "limit", "cost", "winc", "checkout", "fund"}  PROVE FALSE
    BY <1>2 DEF Read, FreeQuota, FreeUploadLimitBytes, UploadCost, WincForToken, CheckoutResult, FundingAddress
  <1>3. ASSUME o = "balance"  PROVE FALSE
    <2>1. Read(o, a) = Balance(a.status, a.body)
      BY <1>3 DEF Read
    <2> QED BY <2>1 DEF Balance
  <1>4. ASSUME o = "submit"  PROVE FALSE
    <2>1. Read(o, a) = FundTransactionResult(a.status, a.body)
      BY <1>4 DEF Read
    <2> QED BY <2>1 DEF FundTransactionResult
  <1>5. o = "share"
    BY <1>2, <1>3, <1>4 DEF Ops, Reads
  <1> QED BY <1>5 DEF Read, CreatedApproval

\* A call that is left alone keeps its item and its answer, and the service
\* forgets no approval.
LEMMA ShareUntouched ==
  ASSUME NEW d \in Calls, ShareOK(d), approvals \subseteq approvals',
         op'[d] = op[d], pc'[d] = pc[d], posted'[d] = posted[d], reply'[d] = reply[d],
         result'[d] = result[d], share'[d] = share[d], item'[d] = item[d]
  PROVE  ShareOK(d)'
  <1>1. ItemOK(d)'
    BY DEF ShareOK, ItemOK, ApprovalItem
  <1>2. AnswerOK(d)'
    BY DEF ShareOK, AnswerOK
  <1>3. GivenOK(d)'
    BY DEF ShareOK, GivenOK
  <1> QED BY <1>1, <1>2, <1>3 DEF ShareOK

\* A call that has no answer yet and is told nothing, or of an error.
LEMMA ShareUnanswered ==
  ASSUME NEW d \in Calls, ItemOK(d)', reply'[d] = None, result'[d] \in {Nothing, Error}
  PROVE  ShareOK(d)'
  BY DEF ShareOK, AnswerOK, GivenOK, Nothing, Error

LEMMA BeginReadShares ==
  ASSUME PayIInv, ShareIInv, NEW c \in Calls, BeginRead(c)
  PROVE  ShareIInv'
  <1>1. PICK o \in Reads \cup {"submit"} :
          /\ op' = [op EXCEPT ![c] = o]
          /\ \/ /\ pc' = [pc EXCEPT ![c] = "request"] /\ posted' = [posted EXCEPT ![c] = TRUE]
                /\ result' = result
             \/ Settle(c, Error) /\ posted' = posted
    BY DEF BeginRead
  <1>2. UNCHANGED <<reply, share, item, approvals>>
    BY DEF BeginRead, serviceVars
  <1>3. reply[c] = None /\ result[c] = Nothing /\ item[c] = None
    BY DEF BeginRead, PayIInv, CallOK, AsksSomething, ResultIsTrue, ShareIInv, ShareOK, ItemOK
  <1>4. ShareTables'
    BY <1>1, <1>2 DEF ShareIInv, ShareTables
  <1>5. ASSUME NEW d \in Calls, d # c  PROVE ShareOK(d)'
    BY <1>1, <1>2, <1>5, ShareUntouched DEF ShareIInv, ShareTables, PayIInv, Tables, Settle
  <1>6. /\ op'[c] # "share" /\ pc'[c] \notin {"idle", "sign"} /\ result'[c] \in {Nothing, Error}
    BY <1>1, <1>3 DEF PayIInv, Tables, Settle, Reads
  <1>7. ShareOK(c)'
    BY <1>2, <1>3, <1>6, ShareUnanswered DEF ItemOK
  <1> QED BY <1>4, <1>5, <1>7 DEF ShareIInv

LEMMA BeginShareShares ==
  ASSUME PayIInv, ShareIInv, NEW c \in Calls, NEW a \in Arguments["share"], NEW now, BeginShare(c, a, now)
  PROVE  ShareIInv'
  <1>1. /\ op' = [op EXCEPT ![c] = "share"] /\ share' = [share EXCEPT ![c] = <<a, now>>]
        /\ UNCHANGED <<posted, reply, approvals>>
    BY DEF BeginShare, serviceVars
  <1>2. /\ reply[c] = None /\ result[c] = Nothing /\ item[c] = None /\ posted[c] = FALSE
    BY DEF BeginShare, PayIInv, CallOK, AsksSomething, ResultIsTrue, ShareIInv, ShareTables, ShareOK, ItemOK
  <1>3. \/ /\ Allowed("share", a) /\ pc' = [pc EXCEPT ![c] = "sign"] /\ result' = result
           /\ item' = [item EXCEPT ![c] = <<ApprovalItem(c, a, now)>>]
        \/ Settle(c, Error) /\ item' = item
    BY DEF BeginShare
  <1>4. ShareTables'
    BY <1>1, <1>3 DEF ShareIInv, ShareTables
  <1>5. ASSUME NEW d \in Calls, d # c  PROVE ShareOK(d)'
    <2>1. item'[d] = item[d]
      BY <1>3, <1>5 DEF ShareIInv, ShareTables
    <2> QED BY <1>1, <1>3, <1>5, <2>1, ShareUntouched DEF ShareIInv, ShareTables, PayIInv, Tables, Settle
  <1>6. op'[c] = "share" /\ share'[c] = <<a, now>> /\ posted'[c] = FALSE /\ reply'[c] = None
    BY <1>1, <1>2 DEF PayIInv, Tables, ShareIInv, ShareTables
  <1>7. ShareOK(c)'
    <2>1. CASE Settle(c, Error) /\ item' = item
      <3>1. pc'[c] = "done" /\ result'[c] = Error /\ item'[c] = None
        BY <1>2, <2>1 DEF PayIInv, Tables, Settle
      <3> QED BY <1>6, <3>1, ShareUnanswered DEF ItemOK
    <2>2. CASE /\ Allowed("share", a) /\ pc' = [pc EXCEPT ![c] = "sign"] /\ result' = result
               /\ item' = [item EXCEPT ![c] = <<ApprovalItem(c, a, now)>>]
      <3>1. pc'[c] = "sign" /\ result'[c] = Nothing
        BY <1>2, <2>2 DEF PayIInv, Tables
      <3>2. item'[c] = <<ApprovalItem(c, share'[c][1], share'[c][2])>>
        BY <1>6, <2>2 DEF ShareIInv, ShareTables
      <3>3. item'[c] # None
        BY <3>2 DEF None
      <3>4. share'[c][1] = a
        BY <1>6
      <3>5. ItemOK(c)'
        <4>1. ApprovalItem(c, share[c][1], share[c][2])' = ApprovalItem(c, share'[c][1], share'[c][2])
          BY DEF ApprovalItem
        <4> QED BY <1>6, <2>2, <3>1, <3>2, <3>3, <3>4, <4>1 DEF ItemOK
      <3> QED BY <1>6, <3>1, <3>5, ShareUnanswered
    <2> QED BY <1>3, <2>1, <2>2
  <1> QED BY <1>4, <1>5, <1>7 DEF ShareIInv

LEMMA ShareSignedShares ==
  ASSUME PayIInv, ShareIInv, NEW c \in Calls, ShareSigned(c)
  PROVE  ShareIInv'
  <1>1. UNCHANGED <<op, reply, share, item, approvals>>
    BY DEF ShareSigned, serviceVars
  <1>2. /\ pc[c] = "sign" /\ op[c] = "share" /\ reply[c] = None /\ result[c] = Nothing
    BY DEF ShareSigned, PayIInv, CallOK, AsksSomething, ResultIsTrue
  <1>3. ItemOK(c)
    BY DEF ShareIInv, ShareOK
  <1>4. \/ /\ pc' = [pc EXCEPT ![c] = "request"] /\ posted' = [posted EXCEPT ![c] = TRUE] /\ result' = result
        \/ Settle(c, Error) /\ posted' = posted
    BY DEF ShareSigned
  <1>5. ShareTables'
    BY <1>1, <1>4 DEF ShareIInv, ShareTables
  <1>6. ASSUME NEW d \in Calls, d # c  PROVE ShareOK(d)'
    BY <1>1, <1>4, <1>6, ShareUntouched DEF ShareIInv, ShareTables, PayIInv, Tables, Settle
  <1>7. pc'[c] \in {"request", "done"} /\ result'[c] \in {Nothing, Error}
    BY <1>2, <1>4 DEF PayIInv, Tables, Settle
  <1>8. ItemOK(c)'
    BY <1>1, <1>2, <1>3, <1>7 DEF ItemOK, ApprovalItem
  <1>9. ShareOK(c)'
    BY <1>1, <1>2, <1>7, <1>8, ShareUnanswered
  <1> QED BY <1>5, <1>6, <1>9 DEF ShareIInv

LEMMA AnsweredShares ==
  ASSUME PayIInv, ShareIInv, NEW c \in Calls, Answered(c)
  PROVE  ShareIInv'
  <1>1. UNCHANGED <<op, posted, share, item, approvals>>
    BY DEF Answered, serviceVars
  <1>2. pc[c] = "request" /\ reply[c] # None /\ op[c] \in Ops
    BY DEF Answered, PayIInv, CallOK, AsksSomething
  <1>3. PICK body \in {reply[c][1].body, None} :
          /\ reply' = [reply EXCEPT ![c][1].body = body]
          /\ Settle(c, Read(op[c], reply'[c][1]))
    BY DEF Answered
  <1>4. reply[c] = <<[status |-> reply[c][1].status, body |-> reply[c][1].body]>>
    BY <1>2 DEF PayIInv, CallOK, ReplyIsTrue
  <1>5. reply'[c][1].body = body
    BY <1>3, <1>4 DEF PayIInv, Tables
  <1>6. pc'[c] = "done" /\ result'[c] = Read(op[c], reply'[c][1])
    BY <1>3 DEF PayIInv, Tables, Settle
  <1>7. ShareTables'
    BY <1>1 DEF ShareIInv, ShareTables
  <1>8. ASSUME NEW d \in Calls, d # c  PROVE ShareOK(d)'
    BY <1>1, <1>3, <1>8, ShareUntouched DEF ShareIInv, PayIInv, Tables, Settle
  <1>9. ItemOK(c) /\ AnswerOK(c)
    BY DEF ShareIInv, ShareOK
  <1>10. ItemOK(c)'
    BY <1>1, <1>2, <1>6, <1>9 DEF ItemOK, ApprovalItem
  <1>11. op[c] = "share" /\ body # None => body = item[c] /\ item[c][1] \in approvals
    BY <1>2, <1>3, <1>9 DEF AnswerOK
  <1>12. AnswerOK(c)'
    BY <1>1, <1>5, <1>11 DEF AnswerOK
  <1>13. GivenOK(c)'
    <2>1. result'[c].kind = "approval" => op[c] = "share" /\ body # None /\ result'[c].value = body
      BY <1>2, <1>5, <1>6, ReadApproves
    <2> QED BY <1>1, <1>11, <2>1 DEF GivenOK
  <1>14. ShareOK(c)'
    BY <1>10, <1>12, <1>13 DEF ShareOK
  <1> QED BY <1>7, <1>8, <1>14 DEF ShareIInv

LEMMA FailsShares ==
  ASSUME PayIInv, ShareIInv, NEW c \in Calls, Fails(c)
  PROVE  ShareIInv'
  <1>1. UNCHANGED <<op, posted, share, item, approvals>> /\ reply' = [reply EXCEPT ![c] = None]
    BY DEF Fails, serviceVars
  <1>2. pc[c] = "request" /\ result[c] = Nothing
    BY DEF Fails, PayIInv, CallOK, ResultIsTrue
  <1>3. UNCHANGED <<pc, result>> \/ Settle(c, Error)
    BY DEF Fails
  <1>4. ShareTables'
    BY <1>1 DEF ShareIInv, ShareTables
  <1>5. ASSUME NEW d \in Calls, d # c  PROVE ShareOK(d)'
    BY <1>1, <1>3, <1>5, ShareUntouched DEF ShareIInv, PayIInv, Tables, Settle
  <1>6. reply'[c] = None /\ pc'[c] \in {"request", "done"} /\ result'[c] \in {Nothing, Error}
    BY <1>1, <1>2, <1>3 DEF PayIInv, Tables, Settle
  <1>7. ItemOK(c)
    BY DEF ShareIInv, ShareOK
  <1>8. ItemOK(c)'
    BY <1>1, <1>2, <1>6, <1>7 DEF ItemOK, ApprovalItem
  <1> QED BY <1>4, <1>5, <1>6, <1>8, ShareUnanswered DEF ShareIInv

\* An answer on its way changes what is known of no item; one to a share is the
\* item's.
LEMMA ReplyShares ==
  ASSUME PayIInv, ShareIInv, NEW c \in Calls, NEW status, NEW body, Reply(c, status, body),
         UNCHANGED <<op, pc, posted, result, share, item>>, approvals \subseteq approvals',
         op[c] = "share" /\ body # None => body = item[c] /\ item[c][1] \in approvals'
  PROVE  ShareIInv'
  <1>1. ASSUME NEW d \in Calls, d # c \/ pc[c] # "request"  PROVE ShareOK(d)'
    <2>1. reply'[d] = reply[d]
      BY <1>1, Replies
    <2> QED BY <2>1, ShareUntouched DEF ShareIInv
  <1>2. CASE pc[c] = "request"
    <2>1. reply'[c][1].body = body
      <3>1. reply'[c] = <<[status |-> status, body |-> body]>>
        BY <1>2, Replies
      <3> QED BY <3>1
    <2>2. ShareOK(c)
      BY DEF ShareIInv
    <2>3. AnswerOK(c)'
      BY <2>1 DEF AnswerOK
    <2>4. ItemOK(c)' /\ GivenOK(c)'
      BY <2>2 DEF ShareOK, ItemOK, ApprovalItem, GivenOK
    <2> QED BY <1>1, <2>3, <2>4 DEF ShareOK, ShareIInv, ShareTables
  <1> QED BY <1>1, <1>2 DEF ShareIInv, ShareTables

LEMMA ServiceShares ==
  ASSUME PayIInv, ShareIInv, NEW c \in Calls, HandlesRead(c) \/ HandlesSubmit(c) \/ HandlesShare(c)
  PROVE  ShareIInv'
  <1>1. UNCHANGED <<op, pc, posted, result, share, item>>
    BY DEF HandlesRead, HandlesSubmit, HandlesShare
  <1>2. CASE HandlesRead(c)
    <2>1. op[c] # "share" /\ approvals' = approvals
      BY <1>2 DEF HandlesRead, Reads, serviceVars
    <2>2. PICK status, body : Reply(c, status, body)
      <3>1. CASE op[c] = "fund"
        BY <1>2, <3>1 DEF HandlesRead
      <3>2. CASE op[c] = "balance"
        BY <1>2, <3>2 DEF HandlesRead
      <3>3. CASE op[c] \in {"quota", "limit", "cost", "winc", "checkout"}
        BY <1>2, <3>3 DEF HandlesRead
      <3> QED BY <1>2, <3>1, <3>2, <3>3 DEF HandlesRead, Reads
    <2> QED BY <1>1, <2>1, <2>2, ReplyShares
  <1>3. CASE HandlesSubmit(c)
    <2>1. op[c] # "share" /\ approvals' = approvals
      BY <1>3 DEF HandlesSubmit
    <2>2. PICK status, body : Reply(c, status, body)
      BY <1>3 DEF HandlesSubmit
    <2> QED BY <1>1, <2>1, <2>2, ReplyShares
  <1>4. CASE HandlesShare(c)
    <2>1. CASE approvals' = approvals \cup {item[c][1]} /\ Reply(c, 200, item[c])
      BY <1>1, <2>1, ReplyShares
    <2>2. CASE approvals \subseteq approvals' /\ \E status \in {200, 402} : Reply(c, status, None)
      BY <1>1, <2>2, ReplyShares
    <2> QED BY <1>4, <2>1, <2>2 DEF HandlesShare
  <1> QED BY <1>2, <1>3, <1>4

\* A step that moves no call and no approval.
LEMMA AloneShares ==
  ASSUME ShareIInv, UNCHANGED <<callVars, approvals>>
  PROVE  ShareIInv'
  <1>1. UNCHANGED <<op, pc, posted, reply, result, share, item>>
    BY DEF callVars
  <1> QED BY <1>1, ShareUntouched DEF ShareIInv, ShareTables

LEMMA ShareNextKeeps == PayIInv /\ ShareIInv /\ [Next]_vars => ShareIInv'
  <1> SUFFICES ASSUME PayIInv, ShareIInv, [Next]_vars  PROVE ShareIInv'
    OBVIOUS
  <1>1. ASSUME NEW c \in Calls, CallStep(c)  PROVE ShareIInv'
    BY <1>1, ShareSignedShares, AnsweredShares, FailsShares DEF CallStep
  <1>2. CASE AddressRotates \/ TransferEnds \/ ServiceChecks
    BY <1>2, AloneShares DEF AddressRotates, TransferEnds, ServiceChecks
  <1>3. CASE UNCHANGED vars
    BY <1>3, AloneShares DEF vars, serviceVars
  <1> QED BY <1>1, <1>2, <1>3, ServiceShares, BeginReadShares, BeginShareShares DEF Next, ServiceStep, AllSettled

LEMMA ShareInvariant == Spec => [](PayIInv /\ ShareIInv)
  <1>1. Init => PayIInv /\ ShareIInv
    BY PayInitOK, ShareInitOK
  <1>2. PayIInv /\ ShareIInv /\ [Next]_vars => (PayIInv /\ ShareIInv)'
    BY PayNextKeeps, ShareNextKeeps
  <1> QED BY <1>1, <1>2, PTL DEF Spec

---------------------------------------------------------------------------
(* Amounts *)

\* The leading zeros that integerString() drops: all but the last digit.
ZerosOf(z, t) == z \in 0..(Len(t) - 1) /\ (\A i \in 1..z : t[i] = 0) /\ (t[z + 1] # 0 \/ z = Len(t) - 1)

\* Digits without their leading zeros are the decimal text of their value, that
\* of zero included.
LEMMA TrimmedDigits ==
  ASSUME NEW t \in Seq(0..9), t # <<>>, NEW z, ZerosOf(z, t)
  PROVE  SubSeq(t, z + 1, Len(t)) = DigitsOf(Value(t, 10))
<1> DEFINE u == SubSeq(t, z + 1, Len(t))
<1>1. t \in Seq(Nat) /\ Len(t) \in Nat /\ z \in Nat /\ z < Len(t)
  BY DEF ZerosOf
<1>2. Value(u, 10) = Value(t, 10)
  BY <1>1, LeadingZeros DEF ZerosOf
<1>3. u \in Seq(0..9) /\ Len(u) = Len(t) - z /\ u[1] = t[z + 1] /\ u # <<>>
  <2>1. z + 1 \in 1..Len(t) /\ z + 1 \in Nat
    BY <1>1
  <2>2. u \in Seq(0..9) /\ Len(u) = Len(t) - z /\ u[1] = t[z + 1]
    BY <1>1, <2>1
  <2> HIDE DEF u
  <2>3. Len(u) > 0
    BY <1>1, <2>2
  <2> QED
    BY <2>2, <2>3
<1> HIDE DEF u
<1>4. CASE u[1] # 0
  <2> DEFINE o == 10
  <2>1. o \in Nat /\ o > 1 /\ 0..(o - 1) = 0..9
    OBVIOUS
  <2> HIDE DEF o
  <2>2. InBase(Value(u, o), o) = u /\ Value(u, o) \in Nat \ {0}
    BY <1>3, <1>4, <2>1, TextIsItsDigits
  <2> QED
    BY <1>2, <2>2 DEF DigitsOf, o, u
<1>5. CASE u[1] = 0
  <2>1. Len(u) = 1
    BY <1>1, <1>3, <1>5 DEF ZerosOf
  <2>2. u = Append(<<>>, 0)
    <3>1. <<0>> \in Seq(0..9) /\ Len(<<0>>) = 1 /\ <<0>>[1] = 0 /\ Append(<<>>, 0) = <<0>>
      OBVIOUS
    <3> DEFINE o == <<0>>
    <3>2. o \in Seq(0..9) /\ Len(u) = Len(o) /\ \A i \in 1..Len(u) : u[i] = o[i]
      BY <1>5, <2>1, <3>1
    <3> HIDE DEF o
    <3>3. u = o
      BY <1>3, <3>2, SameSeq
    <3> QED
      BY <3>1, <3>3 DEF o
  <2>3. Value(u, 10) = 0 + 10 * 0
    <3>1. <<>> \in Seq(Nat)
      OBVIOUS
    <3> QED
      BY <2>2, <3>1, ValueUnfolds
  <2>4. Value(t, 10) = 0 /\ u = <<0>>
    BY <1>2, <2>2, <2>3
  <2> QED
    BY <2>4 DEF DigitsOf, u
<1> QED
  BY <1>4, <1>5

\* integerString() finds them, in any text that is not empty.
LEMMA ZerosExist ==
  ASSUME NEW t \in Seq(Nat), t # <<>>
  PROVE  \E z \in 0..(Len(t) - 1) : ZerosOf(z, t)
<1>0. Len(t) \in Nat /\ Len(t) > 0
  OBVIOUS
<1>1. PICK z : Leads(z, t)
  BY LeadsExists
<1>2. CASE z < Len(t)
  BY <1>0, <1>1, <1>2 DEF Leads, ZerosOf
<1>3. CASE z = Len(t)
  <2>1. ZerosOf(Len(t) - 1, t)
    BY <1>0, <1>1, <1>3 DEF Leads, ZerosOf
  <2> QED
    BY <1>0, <2>1
<1> QED
  BY <1>1, <1>2, <1>3 DEF Leads

\* integerString() gives a number its decimal text, in whatever form it came.
LEMMA AmountsAreWritten ==
  ASSUME NEW v, IsAmount(v), v.form = "text" => v.value \in Seq(Int)
  PROVE  IntegerString(v) = DigitsOf(Worth(v))
<1>1. CASE v.form # "text"
  BY <1>1 DEF IntegerString, Worth
<1>2. CASE v.form = "text"
  <2> DEFINE t == v.value
  <2>1. t \in Seq(0..9) /\ t # <<>>
    <3>1. t # <<>> /\ t \in Seq(Int) /\ \A i \in DOMAIN t : t[i] \in 0..9
      BY <1>2 DEF IsAmount
    <3> HIDE DEF t
    <3>2. Len(t) \in Nat /\ t \in [1..Len(t) -> 0..9]
      BY <3>1
    <3>3. \A n \in Nat : \A f \in [1..n -> 0..9] : f \in Seq(0..9)
      OBVIOUS
    <3> QED
      BY <3>1, <3>2, <3>3
  <2>2. t \in Seq(Nat)
    BY <2>1
  <2> DEFINE z == CHOOSE z \in 0..(Len(t) - 1) :
                    (\A i \in 1..z : t[i] = 0) /\ (t[z + 1] # 0 \/ z = Len(t) - 1)
  <2>3. ZerosOf(z, t)
    BY <2>1, <2>2, ZerosExist DEF ZerosOf
  <2>4. IntegerString(v) = SubSeq(t, z + 1, Len(t))
    BY <1>2 DEF IntegerString
  <2>5. Worth(v) = Value(t, 10)
    <3>1. [i \in DOMAIN t |-> t[Len(t) + 1 - i]] = Reverse(t)
      BY <2>1 DEF Reverse
    <3> QED
      BY <1>2, <3>1 DEF Worth, Value
  <2> HIDE DEF z, t
  <2> QED
    BY <2>1, <2>3, <2>4, <2>5, TrimmedDigits
<1> QED
  BY <1>1, <1>2

---------------------------------------------------------------------------
(* The theorems *)

\* The tables of the calls, and the account of the service, keep their types.
THEOREM TypeCorrect == Spec => [](Tables /\ AccountOK)
  <1>1. PayIInv => Tables /\ AccountOK
    BY DEF PayIInv
  <1> QED BY <1>1, PaymentInvariant, PTL

\* What submitFundTransaction() (src/core/client.js) says of a top-up the service
\* has decided and does not take back, however often it was reported.
THEOREM StatusStaysTrue == Spec => []StatusIsTrue
  <1>1. PayIInv => StatusIsTrue
    BY DEF PayIInv, CallOK, ResultIsTrue, StatusIsTrue
  <1> QED BY <1>1, PaymentInvariant, PTL

\* getFundingAddress() and getBalance() (src/core/client.js) return what the
\* service had while the call was in progress; a balance that was not the service's
\* is zero, from an answer of 200 whose body broke off.
THEOREM AnswersAreTheServices == Spec => []AnswersAreCurrent
  <1>1. PayIInv => AnswersAreCurrent
    BY DEF PayIInv, CallOK, ResultIsTrue, AnswersAreCurrent
  <1> QED BY <1>1, PaymentInvariant, PTL

\* shareCredits() (src/core/client.js) resolves with the caller's own approval,
\* which the service has: for the address, the number of winc and the time it was
\* called with, and no other call's unless both were made in the same millisecond.
THEOREM SharesStayDistinct == Spec => []SharesAreDistinct
  <1>1. ASSUME ShareIInv, NEW c \in Calls, result[c].kind = "approval"
        PROVE  /\ result[c].value[1] \in approvals
               /\ share[c][1] \in Arguments["share"] /\ Allowed("share", share[c][1])
               /\ result[c].value[1] = ApprovalItem(c, share[c][1], share[c][2])
    <2>1. GivenOK(c) /\ ItemOK(c)
      BY <1>1 DEF ShareIInv, ShareOK
    <2>2. result[c].value = item[c] /\ item[c] = <<ApprovalItem(c, share[c][1], share[c][2])>>
      BY <1>1, <2>1 DEF GivenOK, ItemOK
    <2> QED BY <1>1, <2>1, <2>2 DEF GivenOK, ItemOK
  <1>2. ASSUME ShareIInv, NEW c \in Calls, result[c].kind = "approval"
        PROVE  IntegerString(share[c][1].approvedWincAmount) = DigitsOf(Worth(share[c][1].approvedWincAmount))
    <2> DEFINE v == share[c][1].approvedWincAmount
    <2>1. IsAmount(v)
      BY <1>1, <1>2 DEF Allowed, ShareAccepted, IsPositive
    <2>2. v.form = "text" => v.value \in Seq(Int)
      BY <1>1, <1>2, ArgumentsAssumption
    <2> HIDE DEF v
    <2>3. IntegerString(v) = DigitsOf(Worth(v))
      BY <2>1, <2>2, AmountsAreWritten
    <2> QED BY <2>3 DEF v
  <1>3. ShareIInv => SharesAreDistinct
    <2> SUFFICES ASSUME ShareIInv, NEW c \in Calls, result[c].kind = "approval"
                 PROVE  LET approval == result[c].value[1]
                        IN  /\ approval \in approvals
                            /\ approval.for = share[c][1].approvedAddress
                            /\ approval.amount = DigitsOf(Worth(share[c][1].approvedWincAmount))
                            /\ approval.expires = share[c][1].expiresBySeconds
                            /\ \A d \in Calls \ {c} :
                                 result[d].kind = "approval" /\ result[d].value[1] = approval =>
                                     share[c][2] = share[d][2]
      BY DEF SharesAreDistinct
    <2>1. ASSUME NEW d \in Calls, result[d].kind = "approval"
          PROVE  /\ result[d].value[1].for = share[d][1].approvedAddress
                 /\ result[d].value[1].amount = IntegerString(share[d][1].approvedWincAmount)
                 /\ result[d].value[1].expires = share[d][1].expiresBySeconds
                 /\ result[d].value[1].at = share[d][2]
      <3>1. result[d].value[1] = ApprovalItem(d, share[d][1], share[d][2])
        BY <1>1, <2>1
      <3> QED BY <3>1 DEF ApprovalItem
    <2>2. \A d \in Calls \ {c} :
             result[d].kind = "approval" /\ result[d].value[1] = result[c].value[1] => share[c][2] = share[d][2]
      BY <2>1
    <2> QED BY <1>1, <1>2, <2>1, <2>2
  <1> QED BY <1>3, ShareInvariant, PTL
=============================================================================
