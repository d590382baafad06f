--------------------------- MODULE MCConnectionPool ---------------------------
(* Ada transfers, an administrator freezes her wallet and two administrators   *)
(* suspend each other, on one pool; and two crossing transfers alone.          *)
EXTENDS ConnectionPool

CONSTANTS pay, payBack, accuse, counter, freeze,        \* requests
          ada, bola, root, boss, adaWallet, bolaWallet  \* rows

MCBusy == {pay, accuse, counter, freeze}
MCCrossing == {pay, payBack}

MCOpOf == [r \in MCBusy |-> CASE r = pay    -> "transfer"
                             [] r = freeze -> "updateWalletStatus"
                             [] OTHER      -> "updateUserStatus"]
MCRowsOf == [r \in MCBusy |-> CASE r = pay     -> {adaWallet, bolaWallet}
                               [] r = freeze  -> {adaWallet}
                               [] r = accuse  -> {boss}
                               [] r = counter -> {root}]
MCCallerRow == [r \in MCBusy |-> CASE r = pay                -> ada
                                  [] r = accuse             -> root
                                  [] r \in {counter, freeze} -> boss]

MCCrossingOpOf == [r \in MCCrossing |-> "transfer"]
MCCrossingRowsOf == [r \in MCCrossing |-> {adaWallet, bolaWallet}]
MCCrossingCallerRow == [r \in MCCrossing |-> IF r = pay THEN ada ELSE bola]
=============================================================================
