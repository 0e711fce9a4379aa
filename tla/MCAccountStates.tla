-------------------------- MODULE MCAccountStates --------------------------
(* Two accounts that register competing things.                            *)
EXTENDS AccountStates

CONSTANTS a, b, k, l

tx(kind, sender, key) == [kind |-> kind, sender |-> sender, key |-> key, double |-> FALSE]

\* Two second signatures of one account, its keys twice, two accounts that
\* register one dapp and that pay one withdrawal, a dapp signed twice, and a
\* second signature signed twice: the sender has to have one already.
MCOnce == {tx("signature", a, k), tx("signature", a, l),
           tx("multisignature", a, k), tx("multisignature", a, l),
           tx("dapp", a, k), tx("dapp", b, k), tx("outTransfer", a, k), tx("outTransfer", b, k),
           tx("delegate", a, k), [tx("dapp", a, k) EXCEPT !.double = TRUE],
           [tx("signature", a, l) EXCEPT !.double = TRUE],
           tx("inTransfer", b, k)}
=============================================================================
