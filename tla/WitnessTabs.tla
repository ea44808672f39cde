----------------------------- MODULE WitnessTabs ----------------------------
(***************************************************************************)
(* The interactive proof of one Order, in every tab a team has it open in      *)
(* (portal/SchnorrProof.tsx, portal/schnorr-witness.ts).  A tab draws r, sends   *)
(* a = g^r, is given a challenge e and answers z = r + e x.  The judge fixes the  *)
(* first commitment and takes one response (game/src/reducer.ts,                 *)
(* game/src/schnorr.ts); the tabs learn of it when they next read the match.     *)
(* The group is the one of the code: order 11, modulo 23.                       *)
(***************************************************************************)
EXTENDS Integers, FiniteSets

CONSTANTS
    Tabs,        \* tabs and devices of the team
    Secrets,     \* numbers x a statement may be of
    Draws,       \* numbers r the page may draw
    Challenges,  \* numbers e the judge may return
    Absent       \* an absent value

Scalars == 0..10

ASSUME WitnessBounds ==
    Secrets \subseteq Scalars /\ Draws \subseteq Scalars /\ Challenges \subseteq Scalars

Power(base, exponent) ==
    LET value[i \in Nat] == IF i = 0 THEN 1 ELSE (value[i - 1] * base) % 23
    IN  value[exponent]
G(exponent) == Power(2, exponent)

Notes == [x : Scalars, r : Scalars]
Proofs == [a : 0..22, e : Scalars, used : BOOLEAN]
ASSUME AbsentAssumption == Absent \notin Notes /\ Absent \notin Proofs

VARIABLES
    secret,   \* the number x of the statement y = g^x
    proof,    \* contract.schnorr: the commitment, its challenge, whether it was answered
    hit,      \* whether the response verified
    ruled,    \* history: the response was calculated by the steps on screen
    mounted,  \* the tab shows the Order
    known,    \* the proof as the tab last read it
    witness,  \* secret and nonce on screen
    stored,   \* sessionStorage of the tab
    keeps     \* whether its browser lets it store

witnessVars == <<secret, proof, hit, ruled, mounted, known, witness, stored, keeps>>

Y == G(secret)

TabsInit ==
    /\ secret \in Secrets /\ proof = Absent /\ hit = FALSE /\ ruled = FALSE
    /\ mounted = [t \in Tabs |-> FALSE] /\ known = [t \in Tabs |-> Absent]
    /\ witness = [t \in Tabs |-> Absent] /\ stored = [t \in Tabs |-> Absent]
    /\ keeps \in [Tabs -> BOOLEAN]

\* exponentOf: the number whose power of 2 is this; the tiny group has a table of them.
ExponentOf(value) == CHOOSE i \in Scalars : G(i) = value

Fits(w, p) == G(w.x) = Y /\ (p = Absent \/ G(w.r) = p.a)

\* schnorrWitness: the notes of this tab if they fit, else what the table tells of an
\* accepted commitment, else a fresh r.
Recovered(p) == {[x |-> ExponentOf(Y), r |-> ExponentOf(p.a)]}
Witnesses(notes, p) ==
    IF notes # Absent /\ Fits(notes, p) THEN {notes}
    ELSE IF p # Absent THEN Recovered(p)
    ELSE {[x |-> ExponentOf(Y), r |-> r] : r \in Draws}

\* The effect of a tab that shows the Order with p: what is on screen stays while it fits an
\* accepted commitment; what is drawn is noted, what is recovered is not.
Effect(t, p) ==
    IF witness[t] # Absent /\ p # Absent /\ mounted[t] /\ Fits(witness[t], p)
    THEN UNCHANGED <<witness, stored>>
    ELSE LET found == Witnesses(stored[t], p)
         IN  IF found = {} THEN witness' = [witness EXCEPT ![t] = Absent] /\ UNCHANGED stored
             ELSE \E w \in found :
                /\ witness' = [witness EXCEPT ![t] = w]
                /\ stored' = IF keeps[t] /\ (p = Absent \/ w = stored[t])
                             THEN [stored EXCEPT ![t] = w] ELSE stored

Mount(t) ==
    /\ ~mounted[t] /\ mounted' = [mounted EXCEPT ![t] = TRUE]
    /\ Effect(t, known[t])
    /\ UNCHANGED <<secret, proof, hit, ruled, known, keeps>>

\* Another Order is chosen, or the page is reloaded: what is on screen is gone.
Leave(t) ==
    /\ mounted[t] /\ mounted' = [mounted EXCEPT ![t] = FALSE]
    /\ witness' = [witness EXCEPT ![t] = Absent]
    /\ UNCHANGED <<secret, proof, hit, ruled, known, stored, keeps>>

\* The effect runs again when the commitment the tab knows is another.
Learn(t, p) ==
    /\ known' = [known EXCEPT ![t] = p]
    /\ IF mounted[t] /\ (known[t] = Absent <=> p # Absent)
       THEN Effect(t, p) ELSE UNCHANGED <<witness, stored>>

Read(t) ==
    /\ known[t] # proof
    /\ Learn(t, proof)
    /\ UNCHANGED <<secret, proof, hit, ruled, mounted, keeps>>

MutFixes(p) == p
\* The judge fixes the first commitment, and draws its challenge once.
Fixes(p) == IF proof = Absent THEN p ELSE proof

\* The page checks a against its own r before it sends it, and notes r again.  The answer
\* may be lost; a refusal brings no projection.
Commit(t) ==
    /\ mounted[t] /\ known[t] = Absent /\ witness[t] # Absent
    /\ \E e \in Challenges :
        proof' = Fixes([a |-> G(witness[t].r), e |-> e, used |-> FALSE])
    /\ \/ /\ proof = Absent /\ known' = [known EXCEPT ![t] = proof'] /\ UNCHANGED witness
       \/ UNCHANGED <<known, witness>>
    /\ stored' = IF keeps[t] THEN [stored EXCEPT ![t] = witness[t]] ELSE stored
    /\ UNCHANGED <<secret, hit, ruled, mounted, keeps>>

Matches(t) == witness[t] # Absent /\ Fits(witness[t], known[t])

\* The last of the steps on screen: multiply, add, take the remainder by 11.
Response(w, e) == (w.r + e * w.x) % 11

Verifies(a, e, z) == G(z) = (a * Power(Y, e)) % 23

\* A response is taken once, right or wrong.
Respond(t) ==
    /\ mounted[t] /\ known[t] # Absent /\ ~known[t].used /\ Matches(t)
    /\ proof # Absent /\ ~proof.used
    /\ \E z \in {Response(witness[t], known[t].e), (Response(witness[t], known[t].e) + 1) % 11} :
        /\ proof' = [proof EXCEPT !.used = TRUE]
        /\ hit' = Verifies(proof.a, proof.e, z)
        /\ ruled' = (z = Response(witness[t], known[t].e))
    /\ UNCHANGED <<secret, mounted, known, witness, stored, keeps>>

TabsNext ==
    \E t \in Tabs : Mount(t) \/ Leave(t) \/ Read(t) \/ Commit(t) \/ Respond(t)

TabsSpec == TabsInit /\ [][TabsNext]_witnessVars

-----------------------------------------------------------------------------
\* Every variable keeps its type: what is recovered from a table is always found in it.
TabsTyped ==
    /\ secret \in Scalars /\ proof \in Proofs \cup {Absent} /\ hit \in BOOLEAN /\ ruled \in BOOLEAN
    /\ mounted \in [Tabs -> BOOLEAN] /\ known \in [Tabs -> Proofs \cup {Absent}]
    /\ witness \in [Tabs -> Notes \cup {Absent}] /\ stored \in [Tabs -> Notes \cup {Absent}]
    /\ keeps \in [Tabs -> BOOLEAN]

\* Whichever tab a commitment was sent from, every tab that knows of it can finish the
\* proof: the number it shows is the one the commitment is of (schnorr-witness.ts:25-32).
Finishable ==
    \A t \in Tabs : mounted[t] /\ known[t] # Absent => Matches(t)

\* Whoever follows the steps on screen is never told that the proof failed.
StepsVerify == proof # Absent /\ proof.used => (hit <=> ruled)

\* Before anything is sent, the number on screen is the one that a reload or a visit to
\* another Order brings back, if the browser stores at all.
NumberKept ==
    \A t \in Tabs : mounted[t] /\ known[t] = Absent /\ keeps[t] => stored[t] = witness[t]

\* A proof that any tab of the team began can be finished in another
\* (portal/schnorr-witness.ts, game/src/schnorr.ts verifySchnorr).
ProofsSound == TabsTyped /\ Finishable /\ StepsVerify /\ NumberKept
=============================================================================
