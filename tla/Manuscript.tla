----------------------------- MODULE Manuscript -----------------------------
(***************************************************************************)
(* The data side of the kernel's command line: the partition of the quires *)
(* into roles (crate vah-core, partition.rs), the corpora loaded under it, *)
(* the resamples of a target's scale and the files of a target directory   *)
(* (main.rs).  Commands run one after the other and may die anywhere; the  *)
(* transcription may be replaced by another edition between them.          *)
(*                                                                         *)
(* A digest is the thing it is taken of.  Fractions are percents, and      *)
(* quires are numbers in the order of their names.                         *)
(***************************************************************************)
EXTENDS Transcription
LOCAL INSTANCE SequencesExt
LOCAL INSTANCE FiniteSetsExt

CONSTANTS
    Editions,      \* the transcriptions that may be at hand
    Shares,        \* the fractions a partition may be asked for
    Requests,      \* what targets may be built: [view, partition, roles, scale]
    Plants,        \* generated corpora: [answer, corpus, scale]
    Torn,          \* a file that was opened and not written
    MaxCommands, MaxEditions, MaxDeaths  \* bounds: commands, replaced transcriptions, deaths

VARIABLES
    edition,   \* the transcription
    folder,    \* the files: manifest, target, layout, resources, answer, text
    task,      \* the running command
    commands, replaced, deaths

manuscript_vars == <<edition, folder, task, commands, replaced, deaths>>

-----------------------------------------------------------------------------
(* Partition                                                               *)

Roles == <<"discovery", "validation", "confirmation">>
Strata == {"A", "B", None}

QuiresOf(corpus) == {corpus.pages[p].quire : p \in DOMAIN corpus.pages} \ {None}

\* The words of a quire in one stratum.
Mass(corpus, quire, stratum) ==
    WordCount(SelectSeq(corpus.lines, LAMBDA l :
        corpus.pages[l.page].quire = quire /\ corpus.pages[l.page].currier = stratum))
QuireWords(corpus, quire) == MapThenSumSet(LAMBDA s : Mass(corpus, quire, s), Strata)

\* Largest first, ties by name.
Order(corpus) ==
    SetToSortSeq(QuiresOf(corpus), LAMBDA p, q :
        \/ QuireWords(corpus, p) > QuireWords(corpus, q)
        \/ QuireWords(corpus, p) = QuireWords(corpus, q) /\ p < q)

\* Each quire goes to the role whose deficit it fills best, the first on a tie.
RoleOf(corpus, shares) ==
    LET order == Order(corpus)
        mass  == [q \in QuiresOf(corpus) |-> [s \in Strata |-> Mass(corpus, q, s)]]
        total == [s \in Strata |-> MapThenSumSet(LAMBDA q : mass[q][s], QuiresOf(corpus))]
        Gain(given, role, q) ==
          MapThenSumSet(LAMBDA s :
              LET have == MapThenSumSet(LAMBDA p : mass[p][s], {p \in DOMAIN given : given[p] = role})
              IN Min({Max({shares[role] * total[s] - 100 * have, 0}), 100 * mass[q][s]}),
            Strata)
        Best(given, q) ==
          Roles[CHOOSE r \in 1..3 : \A o \in 1..3 :
              \/ Gain(given, Roles[r], q) > Gain(given, Roles[o], q)
              \/ Gain(given, Roles[r], q) = Gain(given, Roles[o], q) /\ r <= o]
    IN FoldLeft(LAMBDA given, q :
                    [p \in DOMAIN given \cup {q} |-> IF p = q THEN Best(given, q) ELSE given[p]],
                <<>>, order)

Assign(corpus, source, view, shares) ==
    LET role == RoleOf(corpus, shares)
        PagesWhere(Test(_)) ==
          {corpus.pages[p].name : p \in {q \in DOMAIN corpus.pages : Test(corpus.pages[q].quire)}}
    IN [source |-> source, view |-> view, shares |-> shares, role |-> role,
        pages |-> [q \in DOMAIN role |-> PagesWhere(LAMBDA x : x = q)],
        words |-> [q \in DOMAIN role |-> QuireWords(corpus, q)],
        unassigned |-> PagesWhere(LAMBDA x : x = None)]

Filter(corpus, manifest, roles) ==
    FilterPages(corpus, {p \in DOMAIN corpus.pages :
        LET quire == corpus.pages[p].quire
        IN quire # None /\ quire \in DOMAIN manifest.role /\ manifest.role[quire] \in roles})

-----------------------------------------------------------------------------
(* Paragraph blocks and resamples                                          *)

BlocksByEnd(lines) ==
    LET n == Len(lines)
        cuts == {i \in 1..n : i = n \/ lines[i].end}
    IN [k \in 1..Cardinality(cuts) |->
          LET to == CHOOSE i \in cuts : Cardinality({j \in cuts : j <= i}) = k
          IN <<Max({0} \cup {j \in cuts : j < to}) + 1, to>>]
ParagraphBlocks(lines) ==
    LET Cut(b, from, to) == [blocks |-> Append(b.blocks, <<from, to>>), start |-> to + 1]
        OnStart(b, i) == IF lines[i].start /\ i > b.start THEN Cut(b, b.start, i - 1) ELSE b
        OnEnd(b, i) == IF lines[i].end THEN Cut(b, b.start, i) ELSE b
        all == FoldLeft(LAMBDA b, i : OnEnd(OnStart(b, i), i), [blocks |-> <<>>, start |-> 1],
                        [i \in DOMAIN lines |-> i])
    IN IF all.start <= Len(lines) THEN Cut(all, all.start, Len(lines)).blocks ELSE all.blocks

BlockLines(lines, block) == SubSeq(lines, block[1], block[2])
SampleLines(lines, sample) == FlattenSeq([k \in DOMAIN sample |-> BlockLines(lines, sample[k])])

\* With replacement up to the words of the corpus, or each block once up to a share of them.
Wanted(lines, scale) ==
    IF scale.method = "subsample" THEN (WordCount(lines) * scale.percent) \div 100
    ELSE WordCount(lines)

SampleDone(lines, scale, blocks, sample) ==
    \/ WordCount(SampleLines(lines, sample)) >= Wanted(lines, scale)
    \/ blocks = <<>>
    \/ scale.method = "subsample" /\ Len(sample) = Len(blocks)

\* The classic scale is built without looking at the options.
ValidScale(scale, blocks) ==
    LET done == IF blocks = <<>> THEN 0 ELSE scale.resamples
        classic == scale.method = "block-bootstrap" /\ scale.lambda = None
    IN classic \/
       /\ scale.method \in {"block-bootstrap", "subsample"}
       /\ scale.method = "subsample" => scale.percent \in 1..99
       /\ scale.lambda # None => scale.lambda \in 0..100 /\ done >= 2

-----------------------------------------------------------------------------
(* Commands                                                                *)

Written(file) == file # None /\ file # Torn

DescribesView(manifest, source, view) == manifest.view = view
Describes(manifest, source, view) == manifest.source = source /\ manifest.view = view

\* The loaded corpus and where it is from, or None when the command ends here.
Load(request) ==
    LET whole == BuildCorpus(edition, ViewOf(request.view))
        manifest == folder["manifest"]
        Loaded(corpus, partition, roles) ==
          [corpus |-> corpus, source |-> edition, view |-> request.view,
           partition |-> partition, roles |-> roles]
    IN IF ~WellFormed(edition) \/ ViewOf(request.view) = None THEN None
       ELSE IF ~request.partition THEN Loaded(whole, None, {})
       ELSE IF /\ Written(manifest) /\ Describes(manifest, edition, request.view)
               /\ \A r \in request.roles : \E k \in 1..3 : Roles[k] = r
            THEN Loaded(Filter(whole, manifest, request.roles), manifest, request.roles)
            ELSE None

Write(file, content) == <<[file |-> file, content |-> content]>>

LayoutOf(lines) ==
    [i \in DOMAIN lines |-> [words |-> Len(lines[i].words), start |-> lines[i].start, end |-> lines[i].end]]

\* The words of the corpus with their counts, of which both resources are made.
Bag(lines) ==
    LET words == FlattenSeq([i \in DOMAIN lines |-> lines[i].words])
    IN [w \in {words[k] : k \in DOMAIN words} |-> Cardinality({k \in DOMAIN words : words[k] = w})]

\* Nothing is written before the last resample, and the target before what goes with it.
Sampling(corpus, scale, writes) ==
    LET blocks == ParagraphBlocks(corpus.lines)
    IN [lines |-> corpus.lines, scale |-> scale, blocks |-> blocks, sample |-> <<>>,
        left |-> IF blocks = <<>> THEN 0 ELSE scale.resamples, writes |-> writes, open |-> FALSE]

Writing(writes) ==
    [lines |-> <<>>, scale |-> None, blocks |-> <<>>, sample |-> <<>>, left |-> 0,
     writes |-> writes, open |-> FALSE]

ValidShares(shares) ==
    /\ \A k \in 1..3 : shares[Roles[k]] \in 0..100
    /\ shares[Roles[1]] + shares[Roles[2]] + shares[Roles[3]] = 100

Idle == task = None /\ commands < MaxCommands

StartPartition(view, shares) ==
    LET loaded == Load([view |-> view, partition |-> FALSE, roles |-> {}])
    IN /\ Idle
       /\ loaded # None /\ ValidShares(shares)
       /\ task' = Writing(Write("manifest", Assign(loaded.corpus, edition, view, shares)))
       /\ commands' = commands + 1
       /\ UNCHANGED <<edition, folder, replaced, deaths>>

StartBuild(request) ==
    LET loaded == Load(request)
        lines  == loaded.corpus.lines
        target == [lines |-> lines, pages |-> loaded.corpus.pages, source |-> loaded.source,
                   view |-> loaded.view, partition |-> loaded.partition, roles |-> loaded.roles]
    IN /\ Idle /\ loaded # None
       /\ ValidScale(request.scale, ParagraphBlocks(lines))
       /\ task' = Sampling(loaded.corpus, request.scale,
                    Write("target", target) \o Write("layout", LayoutOf(lines))
                      \o Write("resources", Bag(lines)))
       /\ commands' = commands + 1
       /\ UNCHANGED <<edition, folder, replaced, deaths>>

\* The layout is the one the corpus was generated for.
StartPlant(plant) ==
    LET lines  == plant.corpus.lines
        target == [lines |-> lines, pages |-> plant.corpus.pages, source |-> plant.answer,
                   view |-> "planted-v1", partition |-> None, roles |-> {}]
    IN /\ Idle
       /\ ValidScale(plant.scale, ParagraphBlocks(lines))
       /\ task' = Sampling(plant.corpus, plant.scale,
                    Write("target", target) \o Write("layout", LayoutOf(lines))
                      \o Write("resources", Bag(lines)) \o Write("answer", plant.answer)
                      \o Write("text", lines))
       /\ commands' = commands + 1
       /\ UNCHANGED <<edition, folder, replaced, deaths>>

\* Resamples of the loaded corpus against the target; the distances are printed.
StartSelfDistance(request) ==
    LET loaded == Load(request)
    IN /\ Idle /\ loaded # None /\ Written(folder["target"])
       /\ task' = Sampling(loaded.corpus, [request.scale EXCEPT !.method = "block-bootstrap"], <<>>)
       /\ commands' = commands + 1
       /\ UNCHANGED <<edition, folder, replaced, deaths>>

Sampled == task # None /\ task.left > 0
SampleIsDone == SampleDone(task.lines, task.scale, task.blocks, task.sample)

Draw ==
    /\ Sampled /\ ~SampleIsDone
    /\ \E b \in DOMAIN task.blocks :
          /\ task.scale.method = "subsample" =>
                \A k \in DOMAIN task.sample : task.sample[k] # task.blocks[b]
          /\ task' = [task EXCEPT !.sample = Append(@, task.blocks[b])]
    /\ UNCHANGED <<edition, folder, commands, replaced, deaths>>

EndSample ==
    /\ Sampled /\ SampleIsDone
    /\ task' = [task EXCEPT !.sample = <<>>, !.left = @ - 1]
    /\ UNCHANGED <<edition, folder, commands, replaced, deaths>>

Open ==
    /\ task # None /\ task.left = 0 /\ task.writes # <<>> /\ ~task.open
    /\ folder' = [folder EXCEPT ![Head(task.writes).file] = Torn]
    /\ task' = [task EXCEPT !.open = TRUE]
    /\ UNCHANGED <<edition, commands, replaced, deaths>>

Fill ==
    /\ task # None /\ task.open
    /\ folder' = [folder EXCEPT ![Head(task.writes).file] = Head(task.writes).content]
    /\ task' = [task EXCEPT !.open = FALSE, !.writes = Tail(@)]
    /\ UNCHANGED <<edition, commands, replaced, deaths>>

EndCommand ==
    /\ task # None /\ task.left = 0 /\ task.writes = <<>>
    /\ task' = None
    /\ UNCHANGED <<edition, folder, commands, replaced, deaths>>

Die ==
    /\ task # None /\ deaths < MaxDeaths
    /\ task' = None /\ deaths' = deaths + 1
    /\ UNCHANGED <<edition, folder, commands, replaced>>

Replace ==
    /\ replaced < MaxEditions
    /\ edition' \in Editions \ {edition} /\ replaced' = replaced + 1
    /\ UNCHANGED <<folder, task, commands, deaths>>

ManuscriptInit ==
    /\ edition \in Editions /\ task = None /\ commands = 0 /\ replaced = 0 /\ deaths = 0
    /\ folder = [f \in {"manifest", "target", "layout", "resources", "answer", "text"} |-> None]

ManuscriptNext ==
    \/ \E r \in Requests : StartBuild(r) \/ StartSelfDistance(r)
    \/ \E r \in Requests, s \in Shares : StartPartition(r.view, s)
    \/ \E p \in Plants : StartPlant(p)
    \/ Draw \/ EndSample \/ Open \/ Fill \/ EndCommand \/ Die \/ Replace

ManuscriptSpec == ManuscriptInit /\ [][ManuscriptNext]_manuscript_vars

-----------------------------------------------------------------------------
(* What holds of the data                                                  *)

\* A manifest gives each page of its edition to one quire at most and counts all words;
\* and a target built under it holds exactly the lines of the pages the manifest lists
\* for its roles: no edition, view or death lets a page of another role into it.
RolesKeepApart ==
    /\ LET m == folder["manifest"] IN
       Written(m) =>
          LET corpus == BuildCorpus(m.source, ViewOf(m.view)) IN
          /\ \A p, q \in DOMAIN m.pages : p # q => m.pages[p] \cap m.pages[q] = {}
          /\ \A q \in DOMAIN m.role : \E k \in 1..3 : m.role[q] = Roles[k]
          /\ MapThenSumSet(LAMBDA q : m.words[q], DOMAIN m.words)
               = WordCount(SelectSeq(corpus.lines, LAMBDA l :
                               corpus.pages[l.page].name \notin m.unassigned))
    /\ LET t == folder["target"] IN
       (Written(t) /\ t.partition # None) =>
          LET m      == t.partition
              whole  == BuildCorpus(t.source, ViewOf(t.view))
              listed == UNION {m.pages[q] : q \in {r \in DOMAIN m.pages : m.role[r] \in t.roles}}
              named(pages, lines) == [i \in DOMAIN lines |-> <<pages[lines[i].page].name, lines[i].words>>]
          IN named(t.pages, t.lines) =
               SelectSeq(named(whole.pages, whole.lines), LAMBDA l : l[1] \in listed)

\* A paragraph stays whole from the transcription to a resample: a locus that was read
\* is written back as it was, two lines share a block exactly when no end or start of
\* a paragraph is between them, and a resample is made of whole blocks, of as many as
\* it wants and not one more, a subsample of different ones.
ParagraphsStand ==
    /\ WellFormed(edition) =>
          \A n \in DOMAIN edition.lines : edition.lines[n].kind = "locus" =>
              Render(Readings(edition)[n].items) = edition.lines[n].text
    /\ task # None =>
          LET lines  == task.lines
              Together(i, j) == \E b \in DOMAIN task.blocks : task.blocks[b][1] <= i /\ j <= task.blocks[b][2]
          IN /\ \A i \in 1..(Len(lines) - 1) :
                   Together(i, i + 1) <=> ~lines[i].end /\ ~lines[i + 1].start
             /\ SampleLines(lines, task.blocks) = lines
             /\ task.sample # <<>> =>
                   LET but == SubSeq(task.sample, 1, Len(task.sample) - 1)
                   IN WordCount(SampleLines(lines, but)) < Wanted(lines, task.scale)
             /\ (task.sample # <<>> /\ task.scale.method = "subsample") =>
                   \A j, k \in DOMAIN task.sample : j # k => task.sample[j] # task.sample[k]

=============================================================================
