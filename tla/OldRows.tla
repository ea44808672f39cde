------------------------------- MODULE OldRows -------------------------------
(***************************************************************************)
(* Matches of earlier versions that a deployment may find under way: the       *)
(* answers that were public, the Orders, and what the version left unrecorded.  *)
(***************************************************************************)
EXTENDS Integers, Sequences, TLC

CONSTANTS t1, t2, None, LeakPoints

Pair == <<t1, t2>>

Posted(kind, tail, team, n, gen, method, body) ==
    [id |-> <<<<team, n>>, tail>>, kind |-> kind, team |-> team,
     order |-> <<team, n>>, gen |-> gen, method |-> method, at |-> 0, body |-> body]

\* What each version could have on the record.
EarlyShare == Posted("share", <<"share", 2>>, t2, 0, 1, None, [i |-> 2, v |-> 5])
EarlyProof(n) == Posted("proof", <<"proof">>, t1, n, 1, None, [o |-> 3, z |-> 9])
Share(team) == Posted("share", <<"share", 1>>, team, 3, 1, "leak", [i |-> 1, v |-> 5])
OldTemplate == [Share(t1) EXCEPT !.id = <<"old", 3>>]
Unfamiliar == [Share(t2) EXCEPT !.order = <<"old", 4>>]
Challenged(n) == Posted("proof", <<"proof">>, t1, n, 1, "prove", [o |-> 3, e |-> 1, z |-> 8])
Pairs(rest) ==
    <<Posted("cipher-pair", <<"pair">>, t2, 1, 1, "leak", [r |-> 1, p |-> 2, x |-> 3]),
      Posted("ciphertext", <<"ciphertext">>, t1, 1, 1, "fhe", [r |-> 4, y |-> 6]),
      Posted("partial", <<"partial">>, t2, 2, 2, "mpc", [v |-> 4, pp |-> 6, s |-> 8])>> \o rest
Reveals(rest) ==
    Pairs(<<Posted("sudoku-reveal", <<"sudoku">>, t1, 3, 1, "prove", [gr |-> 1, cl |-> 7, tg |-> 2]),
            Posted("rps-commit", <<"rps-commit">>, t1, 4, 1, "duel", [du |-> 1, v |-> 12]),
            Posted("rps-open", <<"rps-open">>, t1, 4, 1, "duel", [du |-> 1, v |-> 12, h |-> 3, r |-> 8])>> \o rest)
Ladder ==
    Reveals(<<Posted("cipher-pair", <<"pair">>, t1, 5, 1, "leak", [r |-> 3, kp |-> 2, p |-> 2, x |-> 3]),
              Posted("rsa-pair", <<"pair">>, t2, 5, 2, "leak", [n |-> 15, e |-> 3, p |-> 2, x |-> 8]),
              Posted("rotor-pair", <<"pair">>, t2, 6, 2, "leak", [p |-> 2, x |-> 8])>>)

Records ==
    [v \in {1, 2, 4, 8, 11, 14, 23} |->
        CASE v = 1 -> {<<EarlyShare, EarlyProof(1), OldTemplate>>,
                       <<EarlyProof(1), EarlyProof(2), Unfamiliar>>}
          [] v = 2 -> {Pairs(<<Challenged(2)>>), <<Challenged(2), Challenged(3)>>}
          [] v \in {4, 8} -> {Reveals(<<>>)}
          [] v = 11 -> {Ladder}
          [] OTHER -> {Append(Ladder, Posted("proof", <<"proof">>, t1, 7, 1, "prove",
                                             [o |-> 2, e |-> 4, z |-> 1, y |-> 8]))}]

\* The Orders of a record: those that were answered, and one or two that were not.
Done(id) ==
    [id |-> id, task |-> "reveal", methods |-> {"leak", "prove"}, leakPoints |-> LeakPoints,
     issued |-> 1, expires |-> 3, status |-> "completed", how |-> "leak", schnorr |-> None,
     tried |-> None]
Waiting(id, now) ==
    [Done(id) EXCEPT !.status = IF now < 3 THEN "open" ELSE "expired", !.how = None]
Early(o) == [o EXCEPT !.task = None, !.methods = None, !.leakPoints = None]
Priceless(o) == [o EXCEPT !.leakPoints = None]
Proving(o, methods, used) ==
    [o EXCEPT !.methods = methods, !.schnorr = [used |-> used, outcome |-> None]]

Ids(public) == {a.order : a \in {public[i] : i \in DOMAIN public}} \ {<<"old", 4>>}

\* In a first version nothing was pruned, and a late tick had skipped a slot of t2.
OrdersOf(v, public, now) ==
    CASE v = 1 -> {{Early(Done(id)) : id \in Ids(public)} \cup {Early(Waiting(<<t2, 5>>, now))},
                   {Priceless(Done(id)) : id \in Ids(public)} \cup {Priceless(Waiting(<<t1, 4>>, now))}}
      [] v = 14 -> {{Proving(Waiting(<<t1, 9>>, now), methods, used), Waiting(<<t2, 9>>, now)} :
                        methods \in {{"prove"}, {"leak", "prove"}}, used \in BOOLEAN}
      [] v = 23 -> {{[Waiting(<<t1, 9>>, now) EXCEPT !.tried = TRUE, !.methods = methods,
                         !.schnorr = [used |-> TRUE, outcome |-> "miss"],
                         !.status = IF methods = {"prove"} THEN "completed" ELSE @] :
                        methods \in {{"prove"}, {"leak", "prove"}}}}
      [] OTHER -> {{Waiting(<<t1, 9>>, now)}}

Guards == {{}, {<<t2, t1, 1>>}}

Running ==
    UNION {UNION {UNION {
      {[from |-> v, now |-> now, public |-> public, orders |-> orders,
        given |-> IF v = 1 THEN {o.id : o \in orders} ELSE {t1, t2} \X (0..9),
        count |-> [t \in {t1, t2} |-> 10], gen |-> (t1 :> 1 @@ t2 :> 2), hunted |-> hunted,
        attempts |-> (<<"share", t2, t1, 1>> :> 2)
                       @@ (IF v < 3 THEN <<>> ELSE <<"sudoku", t2, t1, 1>> :> 1)
                       @@ (<<"share", t1, t2, 2>> :> 3)] :
          hunted \in Guards, orders \in OrdersOf(v, public, now)} :
        public \in Records[v]} : now \in {1, 2, 4}} : v \in DOMAIN Records}
=============================================================================
