---------------------------- MODULE MCOracleFeed ----------------------------
(* Small instances of the rates' history.                                  *)
EXTENDS OracleFeed, TLC

CONSTANTS t1, t2, west, rwa

Q(stream, limit, from, to) ==
    [stream |-> stream, limit |-> limit, from |-> from, to |-> to]

\* The latest rate of each stream.
Latest == {Q(west, 1, 0, 0), Q(rwa, 1, 0, 0)}

\* Which call gave a rate matters to nothing.
TxSymmetry == Permutations(Tx)

\* Windows of every form.
Windows == {Q(west, 0, 0, 0), Q(west, 0, 0, 4), Q(west, 0, 1, 0),
            Q(west, 0, 1, 2), Q(west, 0, 1, 6), Q(west, 2, 1, 6)}

\* Clients that want the latest rates, or one window.
AllQuestions == Latest \cup Windows
Asked == {r.question : r \in open} \cup {r.question : r \in shown}
           \cup {cache[i].question : i \in DOMAIN cache}
OneKind == Asked \subseteq Latest \/ \E q \in Windows : Asked \subseteq {q}
=============================================================================
