----------------------------- MODULE MCPayments -----------------------------
(* Payments with arguments of every form, good ones and refused ones.      *)
EXTENDS Payments, TLC

CONSTANTS c1, c2

MCCalls == {c1, c2}

Only(args) == [unknown |-> {}] @@ args
Num(n) == [form |-> "number", value |-> n]
Digits(s) == [form |-> "text", value |-> s]

Checkout == Only([amount |-> Num(500), currency |-> "three letters", owner |-> "A", uiMode |-> "hosted",
                  promoCodes |-> "array"])
Share == Only([approvedAddress |-> "A", approvedWincAmount |-> Num(10), expiresBySeconds |-> None])
TxId(alphabet, length) == Only([txId |-> [alphabet |-> alphabet, length |-> length]])

MCArguments == [
    fund |-> {Only([signal |-> None]), [unknown |-> {"token"}]},
    balance |-> {Only([signal |-> None])},
    limit |-> {Only([signal |-> None])},
    quota |-> {Only([address |-> "A"]), Only([address |-> "two words"])},
    cost |-> {Only([bytes |-> Num(0)]), Only([bytes |-> [form |-> "large", value |-> 9]]),
             Only([bytes |-> Num(-1)]), Only([bytes |-> Digits(<<1>>)])},
    winc |-> {Only([tokenAmount |-> Digits(<<0, 0>>)]), Only([tokenAmount |-> [form |-> "large", value |-> 9]]),
             Only([tokenAmount |-> Digits(<<>>)])},
    submit |-> {TxId("base58", 88), TxId("0x hex", 64), TxId("base58", 31), TxId("base64url", 44)},
    checkout |-> {Checkout, [Checkout EXCEPT !.amount = Num(0)], [Checkout EXCEPT !.owner = ""],
                  [Checkout EXCEPT !.uiMode = "other"], [Checkout EXCEPT !.promoCodes = "text"],
                  [Checkout EXCEPT !.currency = "other"]},
    share |-> {Share, [Share EXCEPT !.approvedWincAmount = Digits(<<0, 1, 0>>)],
               [Share EXCEPT !.approvedWincAmount = Digits(<<0, 0>>)],
               [Share EXCEPT !.approvedAddress = "two words", !.expiresBySeconds = <<60>>],
               [Share EXCEPT !.expiresBySeconds = <<0>>]}]
=============================================================================
