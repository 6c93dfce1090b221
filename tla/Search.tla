------------------------------- MODULE Search -------------------------------
(***************************************************************************)
(* The decoder search kernel (crate vah-search) behind its bounded request *)
(* interface (crate vah-search-wasm), driven by a host that stops, keeps   *)
(* checkpoints, loses them and goes on from an older one.                  *)
(*                                                                         *)
(* A call computes a checkpoint or a result from the job and the           *)
(* checkpoint it was given.  The annealing search scores a proposal by the *)
(* windows it changes, on a plaintext it patches in place; the beam search *)
(* extends partial keys under a budget.  Random numbers come from a stream *)
(* named by the job's digest and the iteration, so they are a function     *)
(* fixed at the start of a behaviour.  Symbols are 1..symbols, letters are *)
(* 0..A-1, keys and texts are sequences.                                   *)
(***************************************************************************)
EXTENDS Kernel, Integers, SequencesExt, FiniteSetsExt

CONSTANTS
    A,              \* size of the alphabet (23)
    Blank,          \* the mark of an unknown letter in a partial key (255)
    BlankScore,     \* what an unknown letter adds to a window (-3300)
    Jobs,           \* sequence of the jobs a host may bring
    Draws,          \* what one proposal may draw from its stream
    Shuffles,       \* what the shuffle of the first key may draw
    TraceEvery,     \* proposals between two trace entries (128)
    MaxProposals,   \* the most proposals of one step request (1024)
    Sizes,          \* numbers of proposals a host asks for
    MaxTextLength,  \* longest ciphertext (20000)
    MaxIterations,  \* largest search budget (100000)
    MaxWidth,       \* largest beam (64)
    MaxCrashes      \* bound: how often the host dies

ASSUME SearchBounds ==
    /\ A \in Nat \ {0}
    /\ Blank \in Nat /\ Blank >= A /\ BlankScore \in Int
    /\ TraceEvery \in Nat \ {0} /\ MaxProposals \in Nat \ {0}
    /\ MaxTextLength \in Nat /\ MaxIterations \in Nat
    /\ Sizes \subseteq Nat /\ MaxCrashes \in Nat

\* A job carries a text and the scores of all windows of four letters and of single
\* letters; no job is number 0.  Draws below a bound are naturals.
ASSUME SearchData ==
    /\ 0 \notin DOMAIN Jobs
    /\ \A j \in DOMAIN Jobs :
          /\ Jobs[j].ciphertext \in Seq(Nat)
          /\ Jobs[j].quad \in [[1..4 -> 0..(A - 1)] -> Int]
          /\ Jobs[j].uni \in [0..(A - 1) -> Int]
          /\ \A f \in Shuffles, i \in 2..Jobs[j].symbols : f[i] \in Nat
    /\ \A d \in Draws :
          /\ d.a \in Nat /\ d.b \in Nat /\ d.luck \in Nat
          /\ d.coin \in BOOLEAN /\ d.letter \in 0..(A - 1)

VARIABLES
    job,      \* index of the job
    stream,   \* the numbers the job's streams hold: [first, draw]
    path,     \* auxiliary: what a search that is never stopped visits
    held,     \* the checkpoint in the host's memory
    file,     \* the checkpoint the host has persisted
    call,     \* the request being computed
    out,      \* the output buffer of the module
    result,   \* the result record the host has received
    verdict,  \* what a verification of that record answered
    crashes

given == <<job, stream, path>>
vars == <<job, stream, path, held, file, call, out, result, verdict, crashes>>

Letters == 0..(A - 1)
J == Jobs[job]
Iterations == J.iterations

Encodings == {"substitution", "homophonic", "balanced-homophonic"}

-----------------------------------------------------------------------------
(* The job and its candidate keys                                          *)

Capacity == J.symbols \div A

ValidJob ==
    /\ J.model
    /\ Len(J.ciphertext) \in 4..MaxTextLength
    /\ J.symbols \in 2..92
    /\ \A i \in DOMAIN J.ciphertext : J.ciphertext[i] \in 1..J.symbols
    /\ J.iterations \in 1..MaxIterations
    /\ J.width \in 1..MaxWidth
    /\ J.encoding \in Encodings
    /\ J.algorithm \in {"restart-anneal-v1", "beam-v1"}
    /\ J.encoding = "substitution" => J.symbols = A
    /\ J.encoding = "balanced-homophonic" => J.symbols % A = 0

Uses(key, letter) == Cardinality({s \in DOMAIN key : key[s] = letter})

ValidKey(key) ==
    /\ Len(key) = J.symbols
    /\ \A s \in DOMAIN key : key[s] \in Letters
    /\ J.encoding = "substitution" => \A s, t \in DOMAIN key : key[s] = key[t] => s = t
    /\ J.encoding = "balanced-homophonic" => \A c \in Letters : Uses(key, c) = Capacity

Decode(key) == [i \in DOMAIN J.ciphertext |-> key[J.ciphertext[i]]]

LastWindow == Len(J.ciphertext) - 3
Windows == 1..LastWindow
Window(text, i) == [k \in 1..4 |-> text[i + k - 1]]
SumOfWindows(value) ==
    LET upto[i \in 0..LastWindow] == IF i = 0 THEN 0 ELSE upto[i - 1] + value[i]
    IN upto[LastWindow]
ScoreOver(plain, windows) ==
    SumOfWindows([i \in Windows |-> IF i \in windows THEN J.quad[Window(plain, i)] ELSE 0])
Score(plain) == ScoreOver(plain, Windows)

Precedes(k, l) ==
    \E s \in DOMAIN k : k[s] < l[s] /\ \A t \in 1..(s - 1) : k[t] = l[t]

-----------------------------------------------------------------------------
(* Checkpoints                                                             *)

Exchange(key, s, t) == [key EXCEPT ![s] = key[t], ![t] = key[s]]

FirstKey ==
    LET n == J.symbols
        shuffled[i \in 1..n] ==
            IF i = n THEN [s \in 1..n |-> (s - 1) % A]
            ELSE Exchange(shuffled[i + 1], i + 1, 1 + (stream.first[i + 1] % (i + 1)))
    IN shuffled[1]

Initial ==
    LET score == Score(Decode(FirstKey))
    IN [job |-> job, iteration |-> 0, key |-> FirstKey, best_key |-> FirstKey,
        score |-> score, best_score |-> score, trace |-> <<>>]

CheckpointMatches(cp) ==
    /\ cp.job = job
    /\ cp.iteration <= Iterations
    /\ ValidKey(cp.key) /\ ValidKey(cp.best_key)
    /\ Len(cp.trace) = cp.iteration \div TraceEvery
    /\ cp.score = Score(Decode(cp.key))
    /\ cp.best_score = Score(Decode(cp.best_key))
    /\ cp.best_score >= cp.score

-----------------------------------------------------------------------------
(* One proposal of the annealing search, on a checkpoint and the plaintext *)
(* of its key, which the code patches and, when it refuses, patches back.  *)

Reassigns(d) == J.encoding = "homophonic" /\ d.coin

AffectedAtStart(d) == {i \in Windows : J.ciphertext[i] \in {d.a, d.b}}
Affected(d) ==
    {i \in Windows : \E k \in 0..3 : J.ciphertext[i + k] \in {d.a, d.b}}

Patch(plain, d, new_a, new_b) ==
    [i \in DOMAIN plain |->
        IF J.ciphertext[i] = d.b THEN new_b
        ELSE IF J.ciphertext[i] = d.a THEN new_a ELSE plain[i]]

Accepts(delta, d) == delta >= 0 \/ d.luck > -delta

ImprovesAnyTie(score, key, cp) == score >= cp.best_score
Improves(score, key, cp) ==
    score > cp.best_score \/ (score = cp.best_score /\ Precedes(key, cp.best_key))

Moved(cp, d, new_a, new_b, delta) ==
    LET key   == [cp.key EXCEPT ![d.a] = new_a, ![d.b] = new_b]
        score == cp.score + delta
        best  == Improves(score, key, cp)
    IN [cp EXCEPT !.key = key, !.score = score,
                  !.best_key = IF best THEN key ELSE @,
                  !.best_score = IF best THEN score ELSE @]

Counted(cp) ==
    LET n == cp.iteration + 1
    IN [cp EXCEPT !.iteration = n,
          !.trace = IF n % TraceEvery = 0
                    THEN Append(@, <<n, cp.key, cp.best_key, cp.score, cp.best_score>>)
                    ELSE @]

Proposal(work) ==
    LET cp      == work.cp
        d       == stream.draw[cp.iteration]
        old_a   == cp.key[d.a]
        old_b   == cp.key[d.b]
        new_a   == IF Reassigns(d) THEN d.letter ELSE old_b
        new_b   == IF Reassigns(d) THEN old_b ELSE old_a
        patched == Patch(work.plain, d, new_a, new_b)
        windows == Affected(d)
        delta   == ScoreOver(patched, windows) - ScoreOver(work.plain, windows)
    IN IF d.a = d.b THEN [work EXCEPT !.cp = Counted(cp)]
       ELSE IF Accepts(delta, d)
            THEN [work EXCEPT !.cp = Counted(Moved(cp, d, new_a, new_b, delta)),
                              !.plain = patched]
            ELSE [work EXCEPT !.cp = Counted(cp),
                              !.plain = Patch(patched, d, old_a, old_b)]

\* advance() decodes the key anew and stops after a number of proposals or at the budget.
Work(cp, proposals) ==
    [cp |-> cp, plain |-> Decode(cp.key),
     end |-> LET n == cp.iteration + proposals
             IN IF n < Iterations THEN n ELSE Iterations]

Record(key, evaluations, trace) ==
    [job |-> job, algorithm |-> J.algorithm, key |-> key, plaintext |-> Decode(key),
     score |-> Score(Decode(key)), evaluations |-> evaluations, trace |-> trace]

CanFinishEarly(cp) == CheckpointMatches(cp)
CanFinish(cp) == CheckpointMatches(cp) /\ cp.iteration = Iterations
Finished(cp) == Record(cp.best_key, cp.iteration, cp.trace)

-----------------------------------------------------------------------------
(* The beam search: one level for each symbol, by falling frequency        *)

\* A sort by a strict order: each place is taken by what has as many before it.
Ranked(S, Before(_, _)) ==
    LET rank == [x \in S |-> Cardinality({y \in S : Before(y, x)})]
    IN [n \in 1..Cardinality(S) |-> CHOOSE x \in S : rank[x] = n - 1]

Count(s) == Cardinality({i \in DOMAIN J.ciphertext : J.ciphertext[i] = s})
MoreFrequent(s, t) == Count(s) > Count(t) \/ (Count(s) = Count(t) /\ s < t)
Order == Ranked(1..J.symbols, MoreFrequent)

PartialWindow(window) ==
    LET part == [k \in 1..4 |-> IF window[k] = Blank THEN BlankScore ELSE J.uni[window[k]]]
    IN IF \E k \in 1..4 : window[k] = Blank THEN part[1] + part[2] + part[3] + part[4]
       ELSE J.quad[window]

PartialScore(key) == SumOfWindows([i \in Windows |-> PartialWindow(Window(Decode(key), i))])

\* How many symbols may stand for one letter.
Share == IF J.encoding = "substitution" THEN 1 ELSE Capacity
Room(key, letter) == J.encoding = "homophonic" \/ Uses(key, letter) < Share

Better(x, y) == x.score > y.score \/ (x.score = y.score /\ Precedes(x.key, y.key))
Best(S) == CHOOSE x \in S : \A y \in S \ {x} : Better(x, y)

Prefix(s, n) == SubSeq(s, 1, IF n < Len(s) THEN n ELSE Len(s))

StartBeam ==
    [beam |-> <<[key |-> [s \in 1..J.symbols |-> Blank], score |-> 0]>>,
     level |-> 1, evaluations |-> 0, trace |-> <<>>]

\* A level tries each letter on each key of the beam, in this order, while the budget
\* lasts.
Sooner(t, u) == t[1] < u[1] \/ (t[1] = u[1] /\ t[2] < u[2])
Possible(b) == {t \in (DOMAIN b.beam) \X Letters : Room(b.beam[t[1]].key, t[2])}
Tries(b) ==
    LET possible == Possible(b)
    IN {t \in possible : b.evaluations + Cardinality({u \in possible : Sooner(u, t)}) < Iterations}

Child(b, t) ==
    LET key == [b.beam[t[1]].key EXCEPT ![Order[b.level]] = t[2]]
    IN [key |-> key, score |-> PartialScore(key)]

NextLevel(b) ==
    LET kept == Prefix(Ranked({Child(b, t) : t \in Tries(b)}, Better), J.width)
    IN [beam |-> kept, level |-> b.level + 1,
        evaluations |-> b.evaluations + Cardinality(Tries(b)),
        trace |-> Append(b.trace, kept)]

BeamDoneEarly(b) == b.level >= J.symbols \/ b.evaluations >= Iterations
BeamDone(b) ==
    b.level > J.symbols \/ b.evaluations >= Iterations \/ Tries(b) = {}

\* Unknown symbols take the places that are left, in sorted order.
Complete(key) ==
    LET blanks == {s \in DOMAIN key : key[s] = Blank}
        left   == {p \in Letters \X (1..Share) : Uses(key, p[1]) + p[2] <= Share}
        place(s) == CHOOSE p \in left :
                      Cardinality({q \in left : Sooner(q, p)}) = Cardinality({t \in blanks : t < s})
    IN [s \in DOMAIN key |->
          IF s \notin blanks THEN key[s]
          ELSE IF J.encoding = "homophonic" THEN 0 ELSE place(s)[1]]

BeamResult(b) ==
    LET complete == {Complete(b.beam[i].key) : i \in DOMAIN b.beam}
    IN Record(Best({[key |-> key, score |-> Score(Decode(key))] : key \in complete}).key,
              b.evaluations, b.trace)

\* The shape and the content of a record, recomputed; how it was found is not looked at.
CandidateHolds(r) ==
    /\ ValidKey(r.key)
    /\ r.evaluations <= Iterations
    /\ Len(r.trace) <= (Iterations \div TraceEvery) + J.symbols
    /\ r = Record(r.key, r.evaluations, r.trace)

-----------------------------------------------------------------------------
(* Requests.  A call writes the output buffer when it ends; a refused one  *)
(* ends at once.                                                           *)

Failure == [ok |-> FALSE, kind |-> "error", value |-> None]
Answer(kind, value) == [ok |-> TRUE, kind |-> kind, value |-> value]

Refuse == out' = Failure /\ UNCHANGED call

Annealing == J.algorithm = "restart-anneal-v1"

Idle == call = None /\ out = None

AskStep(proposals) ==
    /\ Idle
    /\ IF /\ ValidJob /\ Annealing /\ proposals \in 1..MaxProposals
          /\ held # None => CheckpointMatches(held)
       THEN /\ call' = [op |-> "step", work |-> Work(IF held = None THEN Initial ELSE held, proposals)]
            /\ UNCHANGED out
       ELSE Refuse
    /\ UNCHANGED <<given, held, file, result, verdict, crashes>>

AskFinish ==
    /\ Idle /\ held # None
    /\ out' = IF ValidJob /\ CanFinish(held) THEN Answer("result", Finished(held)) ELSE Failure
    /\ UNCHANGED <<given, held, file, call, result, verdict, crashes>>

\* run, and verify, which checks the candidate and then runs the whole job again.
AskRun(op) ==
    /\ Idle
    /\ IF ValidJob /\ (op = "verify" => CandidateHolds(result))
       THEN /\ call' = IF Annealing THEN [op |-> op, work |-> Work(Initial, MaxProposals)]
                       ELSE [op |-> op, beam |-> StartBeam]
            /\ UNCHANGED out
       ELSE Refuse
    /\ UNCHANGED <<given, held, file, result, verdict, crashes>>

\* A verification in steps ends with a finished checkpoint instead of a run.
AskVerificationFinish ==
    /\ Idle /\ held # None /\ result # None
    /\ out' = IF ValidJob /\ CandidateHolds(result) /\ CanFinish(held)
              THEN Answer("verdict", Finished(held) = result) ELSE Failure
    /\ UNCHANGED <<given, held, file, call, result, verdict, crashes>>

Ends(possible, r) ==
    /\ out' = IF ~possible THEN Failure
              ELSE IF call.op = "verify" THEN Answer("verdict", r = result) ELSE Answer("result", r)
    /\ call' = None

Propose ==
    /\ call # None /\ "work" \in DOMAIN call
    /\ call.work.cp.iteration < call.work.end
    /\ call' = [call EXCEPT !.work = Proposal(call.work)]
    /\ UNCHANGED <<given, held, file, out, result, verdict, crashes>>

EndAdvance ==
    /\ call # None /\ "work" \in DOMAIN call
    /\ call.work.cp.iteration = call.work.end
    /\ IF call.op = "step"
       THEN out' = Answer("checkpoint", call.work.cp) /\ call' = None
       ELSE IF call.work.end < Iterations
            THEN call' = [call EXCEPT !.work = Work(call.work.cp, MaxProposals)] /\ UNCHANGED out
            ELSE Ends(CanFinish(call.work.cp), Finished(call.work.cp))
    /\ UNCHANGED <<given, held, file, result, verdict, crashes>>

Expand ==
    /\ call # None /\ "beam" \in DOMAIN call
    /\ IF BeamDone(call.beam)
       THEN Ends(TRUE, BeamResult(call.beam))
       ELSE call' = [call EXCEPT !.beam = NextLevel(call.beam)] /\ UNCHANGED out
    /\ UNCHANGED <<given, held, file, result, verdict, crashes>>

\* The host reads the buffer and clears it.
Read ==
    /\ out # None
    /\ held' = IF out.kind = "checkpoint" THEN out.value ELSE held
    /\ result' = IF out.kind = "result" THEN out.value ELSE result
    /\ verdict' = IF out.kind = "verdict" THEN Answer("verdict", out.value) ELSE verdict
    /\ out' = None
    /\ UNCHANGED <<given, file, call, crashes>>

Save ==
    /\ held # None /\ file # held
    /\ file' = held
    /\ UNCHANGED <<given, held, call, out, result, verdict, crashes>>

\* The worker or its page dies: memory, the running call and the buffer are gone.
Crash ==
    /\ crashes < MaxCrashes
    /\ crashes' = crashes + 1
    /\ held' = None /\ call' = None /\ out' = None
    /\ UNCHANGED <<given, file, result, verdict>>

Restore ==
    /\ Idle /\ held = None /\ file # None
    /\ held' = file
    /\ UNCHANGED <<given, file, call, out, result, verdict, crashes>>

\* Only the annealing search draws, once for each proposal of its budget, and two
\* symbols of its key each time.
Drawn == ValidJob /\ Annealing
DrawsBelow(n) == {d \in Draws : d.a \in 1..n /\ d.b \in 1..n}
Streams ==
    IF Drawn
    THEN [first : Shuffles, draw : [0..(Iterations - 1) -> DrawsBelow(J.symbols)]]
    ELSE {None}

\* The state after n proposals of a search that is never stopped, with every
\* candidate decoded and scored in full.
FullScored(cp) ==
    LET d       == stream.draw[cp.iteration]
        new     == IF Reassigns(d) THEN [cp.key EXCEPT ![d.a] = d.letter]
                   ELSE [cp.key EXCEPT ![d.a] = cp.key[d.b], ![d.b] = cp.key[d.a]]
        delta   == Score(Decode(new)) - cp.score
    IN IF d.a # d.b /\ (delta >= 0 \/ d.luck > -delta)
       THEN [iteration |-> cp.iteration + 1, key |-> new, score |-> Score(Decode(new))]
       ELSE [cp EXCEPT !.iteration = cp.iteration + 1]

Path ==
    LET visit[n \in 0..Iterations] ==
          IF n = 0 THEN [iteration |-> 0, key |-> FirstKey, score |-> Score(Decode(FirstKey))]
          ELSE FullScored(visit[n - 1])
    IN IF Drawn THEN visit ELSE None

\* A mistaken host brings the checkpoint of another job with the same keys.
RestoreForeign ==
    /\ Idle /\ held = None /\ file # None /\ file.job = job
    /\ held' = [file EXCEPT !.job = 0, !.iteration = 0, !.trace = <<>>]
    /\ UNCHANGED <<given, file, call, out, result, verdict, crashes>>

Init ==
    /\ job \in DOMAIN Jobs
    /\ stream \in Streams
    /\ path = Path
    /\ held = None /\ file = None /\ call = None /\ out = None
    /\ result = None /\ verdict = None /\ crashes = 0

Next ==
    \/ \E n \in Sizes : AskStep(n)
    \/ AskFinish
    \/ result = None /\ AskRun("run")
    \/ result # None /\ verdict = None /\ AskRun("verify")
    \/ verdict = None /\ AskVerificationFinish
    \/ Propose \/ EndAdvance \/ Expand \/ Read \/ Save \/ Crash \/ Restore \/ RestoreForeign

Spec == Init /\ [][Next]_vars

-----------------------------------------------------------------------------
(* What the search promises.                                               *)

\* The checkpoints of this job that exist anywhere.
Checkpoints ==
    {cp \in {held, file} \ {None} : cp.job = job} \cup (IF out # None /\ out.kind = "checkpoint" THEN {out.value} ELSE {})
      \cup (IF call # None /\ "work" \in DOMAIN call THEN {call.work.cp} ELSE {})

\* A checkpoint is where an uninterrupted search with full scores would be after as
\* many proposals, however it was cut into calls, lost and resumed: the patched
\* plaintext and the windows of advance() lose and count nothing twice.
ResumedIsUninterrupted ==
    \A cp \in Checkpoints :
        /\ cp.key = path[cp.iteration].key
        /\ cp.score = path[cp.iteration].score
        /\ Len(cp.trace) = cp.iteration \div TraceEvery
        /\ \A i \in DOMAIN cp.trace :
              /\ cp.trace[i][1] = i * TraceEvery
              /\ cp.trace[i][2] = path[i * TraceEvery].key

\* The best key of a checkpoint is the first in key order among the best scoring
\* keys the search has visited, the starting key included.
BestIsBestVisited ==
    \A cp \in Checkpoints :
        LET visited == {[key |-> path[n].key, score |-> path[n].score] : n \in 0..cp.iteration}
        IN \E v \in visited :
              /\ cp.best_key = v.key /\ cp.best_score = v.score
              /\ \A w \in visited \ {v} : Better(v, w)

Keys == [1..J.symbols -> Letters]

\* Did width and budget of the job allow every child of every partial key?
RoomForAll == J.width >= Cardinality(Keys) /\ J.iterations >= A * Cardinality(Keys) * J.symbols

\* A beam spends no more than its budget, and one that never had to cut anything
\* returns the best of all keys, the first in key order on a tie.
BeamFindsBest ==
    (result # None /\ result.algorithm = "beam-v1") =>
        /\ ValidKey(result.key) /\ result.evaluations <= Iterations
        /\ RoomForAll =>
              \A key \in Keys : ValidKey(key) /\ key # result.key =>
                  Better(result, [key |-> key, score |-> Score(Decode(key))])

\* What the kernel returns it accepts: its checkpoints may be resumed, its results pass
\* the candidate check, and a verification of them, in one run or in steps and whatever
\* was lost in between, never fails and never disagrees.
ResultsVerify ==
    /\ \A cp \in Checkpoints : CheckpointMatches(cp)
    /\ result # None => CandidateHolds(result)
    /\ verdict # None => verdict.value

=============================================================================
