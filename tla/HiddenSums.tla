----------------------------- MODULE HiddenSums -----------------------------
(***************************************************************************)
(* The two Orders that compute on numbers nobody may see: adding ciphertexts  *)
(* (fhe.ts) and a masked total of three offices (mpc.ts), from the derivation   *)
(* of the job to the answer on the public ledger (reducer.ts). A derived value  *)
(* is any value the derivation may produce.                                    *)
(***************************************************************************)
EXTENDS Integers, FiniteSets

CONSTANTS Prime, MaskRange  \* the field; bound: the masks office 0 sends and receives

VARIABLES order, answer     \* the Order and what is hidden in it; its artifact on the ledger
sumVars == <<order, answer>>

Field == 0 .. Prime - 1
Unanswered == [kind |-> "none"]

-----------------------------------------------------------------------------
(* Addition under encryption. *)
Input == {1, 2}

\* Every input has a key of its own, and its randomness is never zero.
FheKeys == [Input -> Field]
FhePlaintexts == [Input -> Field]
Randomness == [Input -> 1 .. Prime - 1]

Encrypt(m, k, r) == [r |-> r, y |-> (m + k * r) % Prime]
OrderInputs(m, k, r) == [i \in Input |-> Encrypt(m[i], k[i], r[i])]
AddCiphertexts(a, b) == [r |-> (a.r + b.r) % Prime, y |-> (a.y + b.y) % Prime]
OrderMaskSum(o) == (o.keys[1] * o.inputs[1].r + o.keys[2] * o.inputs[2].r) % Prime
DecryptOrderSum(c, o) == (c.y - OrderMaskSum(o)) % Prime
ExpectedFheSum(o) == (o.plaintexts[1] + o.plaintexts[2]) % Prime

\* The judge reads both halves of the pair: the first against the Order's own, the second
\* by decrypting it.
AcceptsFhe(c, o) ==
    /\ c.r = (o.inputs[1].r + o.inputs[2].r) % Prime
    /\ DecryptOrderSum(c, o) = ExpectedFheSum(o)

-----------------------------------------------------------------------------
(* The masked total. Office 0 is the team; the masks run between every two offices. *)
Office == 0 .. 2
Ways == {w \in Office \X Office : w[1] # w[2]}
OtherParties(self) == Office \ {self}
Sum2(f, S) == LET a == CHOOSE x \in S : TRUE
                  b == CHOOSE x \in S \ {a} : TRUE
              IN f[a] + f[b]
ComputePartial(x, received, sent) == (x + received - sent) % Prime
Partial(o, self) == ComputePartial(o.figures[self],
    Sum2([from \in OtherParties(self) |-> o.masks[<<from, self>>]], OtherParties(self)),
    Sum2([to \in OtherParties(self) |-> o.masks[<<self, to>>]], OtherParties(self)))
ExpectedMpcTotal(o) == (o.figures[0] + o.figures[1] + o.figures[2]) % Prime
SumInField(v, w) == (v + w[1] + w[2]) % Prime

\* What office 0 is handed: its own figure, and the masks it received and sent.
OwnWays == {w \in Ways : 0 \in {w[1], w[2]}}
MyView(o) == [myInput |-> o.figures[0], masks |-> [w \in OwnWays |-> o.masks[w]]]

Masks == {m \in [Ways -> Field] : \A w \in OwnWays : m[w] \in MaskRange[w]}

-----------------------------------------------------------------------------
Init ==
    /\ answer = Unanswered
    /\ \/ \E m \in FhePlaintexts, k \in FheKeys, r \in Randomness :
             order = [kind |-> "homomorphic-sum", plaintexts |-> m, keys |-> k,
                      inputs |-> OrderInputs(m, k, r)]
       \/ \E x \in [Office -> Field], masks \in Masks :
             order = [kind |-> "masked-total", figures |-> x, masks |-> masks]

Fhe == \E c \in [r : Field, y : Field] :
    /\ order.kind = "homomorphic-sum" /\ answer = Unanswered
    /\ AcceptsFhe(c, order)
    /\ answer' = [kind |-> "ciphertext", c |-> c]
    /\ UNCHANGED order

\* The judge compares the partial with its own, then publishes those of the other offices.
Mpc == \E partial \in Field :
    /\ order.kind = "masked-total" /\ answer = Unanswered
    /\ partial = Partial(order, 0)
    /\ LET peers == [i \in {1, 2} |-> Partial(order, i)]
       IN answer' = [kind |-> "partial", partial |-> partial, peers |-> peers,
                     total |-> SumInField(partial, peers)]
    /\ UNCHANGED order

Next == Fhe \/ Mpc
Spec == Init /\ [][Next]_sumVars

-----------------------------------------------------------------------------
\* The two public pairs are consistent with every pair of plaintexts, together: some keys
\* and the published randomness produce just these ciphertexts.
PlaintextsHidden == order.kind = "homomorphic-sum" =>
    \A m \in FhePlaintexts : \E k \in FheKeys :
        OrderInputs(m, k, [i \in Input |-> order.inputs[i].r]) = order.inputs

\* What is accepted is the componentwise sum of the pairs, and nothing else.
OneSum == order.kind = "homomorphic-sum" =>
    {c \in [r : Field, y : Field] : AcceptsFhe(c, order)} = {AddCiphertexts(order.inputs[1], order.inputs[2])}

\* The masks cancel: what the ledger shows as the total is the sum of the three figures.
MasksCancel == answer.kind = "partial" => answer.total = ExpectedMpcTotal(order)

\* With all three partials in front of it, the team can still think any figure of another
\* office possible, and a reader outside any figure of the team.
FiguresHidden == answer.kind = "partial" =>
    LET shown(o) == [i \in Office |-> Partial(o, i)]
        told == [i \in Office |-> IF i = 0 THEN answer.partial ELSE answer.peers[i]]
        peersMasks == [{<<1, 2>>, <<2, 1>>} -> Field]
        insider(x, between) ==
            [figures |-> [i \in Office |-> IF i = 0 THEN order.figures[0]
                                           ELSE IF i = 1 THEN x ELSE (answer.total - order.figures[0] - x) % Prime],
             masks |-> [w \in Ways |-> IF w \in OwnWays THEN order.masks[w] ELSE between[w]]]
    IN /\ \A x \in Field : \E between \in peersMasks :
              /\ MyView(insider(x, between)) = MyView(order)
              /\ shown(insider(x, between)) = told
       /\ \A x \in Field : \E w \in [{<<1, 0>>, <<0, 2>>} -> Field] :
              ComputePartial(x, w[<<1, 0>>] + order.masks[<<2, 0>>],
                             order.masks[<<0, 1>>] + w[<<0, 2>>]) = answer.partial

SumsSound == PlaintextsHidden /\ OneSum /\ MasksCancel /\ FiguresHidden
=============================================================================
