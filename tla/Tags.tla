--------------------------------- MODULE Tags ---------------------------------
(***************************************************************************)
(* Request tags: the one format of shared/tags.ts, the layers a session of *)
(* the CLI folds (cli/tags.ts), and what the gateway files a request under *)
(* (tagsOf, server/auth/posture.ts).                                       *)
(*                                                                         *)
(* A layer is a sequence of pairs <<key, value>>, in the order of the file *)
(* it comes from, and "" is the value that removes a key.  What is written *)
(* by hand may hold Malformed for a pair that is not one.  A directory is  *)
(* the sequence of its segments.  A world is                               *)
(*    saved   ~/.fest/tags.json: [global, paths], or NULL                  *)
(*    root    the repository around the working directory, or NULL         *)
(*    name    the tag value of its name, or NULL                           *)
(*    pkg     what package.json says under `fest`; NULL without the file,  *)
(*            Broken when it does not parse                                *)
(*    fest    the same of .fest.json                                       *)
(*    cwd     the working directory                                        *)
(*    env     FEST_TAGS, or NULL                                           *)
(***************************************************************************)
EXTENDS Integers, Sequences, FiniteSets, SequencesExt, Functions, TLC

CONSTANTS
    NULL, Malformed, Broken,
    Lower,   \* toLowerCase() on keys
    MaxTags

KeyOf(pair) == pair[1]
ValueOf(pair) == pair[2]
Keys(pairs) == {KeyOf(p) : p \in ToSet(pairs)}

\* An assignment to an object: a key that is there keeps its place.
Put(pairs, pair) ==
    IF KeyOf(pair) \notin Keys(pairs) THEN Append(pairs, pair)
    ELSE [i \in DOMAIN pairs |-> IF KeyOf(pairs[i]) = KeyOf(pair) THEN pair ELSE pairs[i]]
Drop(pairs, keys) == SelectSeq(pairs, LAMBDA p : KeyOf(p) \notin keys)

-----------------------------------------------------------------------------
(* shared/tags.ts *)

\* A pair that is not one never fails the request it rides on.
ParseTagPairs(raw) ==
    LET good == SelectSeq(raw, LAMBDA p : p # Malformed)
    IN  [i \in DOMAIN good |-> <<Lower[KeyOf(good[i])], ValueOf(good[i])>>]

TagsFromPairs(pairs) ==
    FoldLeft(LAMBDA tags, p :
                 CASE ValueOf(p) = "" -> Drop(tags, {KeyOf(p)})
                   [] ValueOf(p) # "" /\ KeyOf(p) \notin Keys(tags) /\ Len(tags) >= MaxTags -> tags
                   [] OTHER -> Put(tags, p),
             <<>>, pairs)

\* The one stored form: the same for the same tags, whatever their order.
CanonicalTags(tags) ==
    [k \in Keys(tags) |-> ValueOf(SelectSeq(tags, LAMBDA p : KeyOf(p) = k)[1])]

\* What is filed: a header's tags, without its removals, and a path's over them.
TagsOf(fromPath, header) ==
    LET said == IF header = NULL THEN <<>>
                ELSE SelectSeq(ParseTagPairs(header), LAMBDA p : ValueOf(p) # "")
    IN  TagsFromPairs(said \o fromPath)

-----------------------------------------------------------------------------
(* reading *)

ReadLayer(file) == FoldLeft(Put, <<>>, ParseTagPairs(file))

\* The first version of the file was its global tags.
ReadSavedTags(world) ==
    CASE world.saved = NULL -> [global |-> <<>>, paths |-> <<>>]
      [] world.saved # NULL /\ "flat" \in DOMAIN world.saved ->
            [global |-> ReadLayer(world.saved.flat), paths |-> <<>>]
      [] OTHER ->
            LET kept == {d \in DOMAIN world.saved.paths : ReadLayer(world.saved.paths[d]) # <<>>}
            IN  [global |-> ReadLayer(world.saved.global),
                 paths |-> [d \in kept |-> ReadLayer(world.saved.paths[d])]]

\* A file that is broken is the repository's problem, and contributes nothing.
ReadRepoTags(world) ==
    LET Of(file) == IF file \in {NULL, Broken} THEN <<>> ELSE ReadLayer(file)
    IN  FoldLeft(Put, Of(world.pkg), Of(world.fest))

PathLayers(saved, cwd) ==
    SetToSortSeq({d \in DOMAIN saved.paths : IsPrefix(d, cwd)}, LAMBDA d, e : Len(d) < Len(e))
\* Outermost first; the repository's file is on top of what was saved for the
\* same directory.
DirLayers(world, saved) ==
    LET dirs == PathLayers(saved, world.cwd)
        above == SelectSeq(dirs, LAMBDA d : world.root # NULL /\ Len(d) <= Len(world.root))
        below == SelectSeq(dirs, LAMBDA d : world.root = NULL \/ Len(d) > Len(world.root))
        Saved(seq) == [i \in DOMAIN seq |-> saved.paths[seq[i]]]
    IN  Saved(above)
        \o (IF world.root = NULL THEN <<>> ELSE <<ReadRepoTags(world)>>) \o Saved(below)

\* sessionTags and resolveTags: every layer, lowest first.
Layers(world, flags) ==
    LET saved == ReadSavedTags(world)
    IN  <<IF world.root = NULL \/ world.name = NULL THEN <<>> ELSE <<<<"project", world.name>>>>,
          saved.global>>
        \o DirLayers(world, saved)
        \o <<IF world.env = NULL THEN <<>> ELSE ParseTagPairs(world.env), ParseTagPairs(flags)>>

SessionTags(world, flags) == TagsFromPairs(FlattenSeq(Layers(world, flags)))

-----------------------------------------------------------------------------
(* writing: `fest tags set` and `unset` *)

\* The keys of an edit; what is not a pair names none that a file can hold.
Named(edit) == Keys(ParseTagPairs(edit.pairs))

\* Read as it is, and refused when it is broken: rewriting would destroy it.
EditLayer(file, edit) ==
    LET current == IF file = NULL THEN <<>> ELSE ReadLayer(file)
    IN  IF edit.sub = "set" THEN FoldLeft(Put, current, ParseTagPairs(edit.pairs))
        ELSE Drop(current, Named(edit))

\* bug: a package.json is preferred to the .fest.json somebody chose
WriteRepoTagsInPackage(world, edit) ==
    CASE world.pkg \notin {NULL, Broken} -> [world EXCEPT !.pkg = EditLayer(@, edit)]
      [] world.pkg \in {NULL, Broken} /\ world.fest # Broken ->
            [world EXCEPT !.fest = IF EditLayer(@, edit) = <<>> THEN NULL
                                   ELSE EditLayer(@, edit)]
      [] OTHER -> world

\* An existing .fest.json, else package.json, else a new .fest.json.
WriteRepoTags(world, edit) ==
    CASE world.fest = NULL /\ world.pkg \notin {NULL, Broken} ->
            [world EXCEPT !.pkg = EditLayer(@, edit)]
      [] world.fest # Broken /\ (world.fest # NULL \/ world.pkg = NULL) ->
            [world EXCEPT !.fest = IF EditLayer(@, edit) = <<>> THEN NULL
                                   ELSE EditLayer(@, edit)]
      [] OTHER -> world

WriteSavedTags(world, saved) == [world EXCEPT !.saved = saved]

\* An edit is [sub, global, pairs].  `set` fails on what is not a pair; `unset`
\* looks at nothing it is given.
Misspelt(edit) == edit.sub = "set" /\ Malformed \in ToSet(edit.pairs)

RunTags(world, edit) ==
    LET saved == ReadSavedTags(world)
        mine == EditLayer(IF world.cwd \in DOMAIN saved.paths THEN saved.paths[world.cwd]
                          ELSE NULL, edit)
    IN  CASE Misspelt(edit) -> world
          [] ~Misspelt(edit) /\ edit.global ->
                WriteSavedTags(world, [saved EXCEPT !.global = EditLayer(@, edit)])
          [] ~Misspelt(edit) /\ ~edit.global /\ world.root # NULL ->
                WriteRepoTags(world, edit)
          [] OTHER ->
                WriteSavedTags(world, [saved EXCEPT !.paths =
                    [d \in (DOMAIN @ \cup {world.cwd}) \ (IF mine = <<>> THEN {world.cwd} ELSE {})
                        |-> IF d = world.cwd THEN mine ELSE @[d]]])

-----------------------------------------------------------------------------
(***************************************************************************)
(* peelTagFlags: the leading `--tag value` and `--tag=value`; the rest is  *)
(* the child's, whatever it looks like.  An argument is "--tag", a record  *)
(* [eq] or anything else; NULL is the error of a flag without its value.   *)
(***************************************************************************)
PeelTagFlags(argv) ==
    LET read == FoldLeft(
            LAMBDA acc, arg :
                CASE acc.done -> [acc EXCEPT !.rest = Append(@, arg)]
                  [] ~acc.done /\ acc.asks -> [acc EXCEPT !.asks = FALSE, !.tags = Append(@, arg)]
                  [] ~acc.done /\ ~acc.asks /\ arg[1] = "--tag" -> [acc EXCEPT !.asks = TRUE]
                  [] ~acc.done /\ ~acc.asks /\ arg[1] = "--tag=" ->
                        [acc EXCEPT !.tags = Append(@, Tail(arg))]
                  [] OTHER -> [acc EXCEPT !.done = TRUE, !.rest = <<arg>>],
            [tags |-> <<>>, rest |-> <<>>, asks |-> FALSE, done |-> FALSE], argv)
    IN  IF read.asks THEN NULL ELSE [tags |-> read.tags, rest |-> read.rest]

-----------------------------------------------------------------------------
(***************************************************************************)
(* A tag means what the narrowest place that mentions it says, and what is *)
(* set takes effect where it is set: at the working directory the command  *)
(* was run in, and for every clone when it is a repository, unless a       *)
(* narrower directory, the environment or the cap of tags stands in the    *)
(* way; neither `set` nor `unset`, wherever they write, changes a tag they *)
(* were not given (cli/tags.ts:5-23).  A request is                        *)
(* filed under what the session was started with, its flags first of all,  *)
(* and under what its header adds; and what is not a leading tag flag is   *)
(* the child's, untouched.                                                 *)
(***************************************************************************)
Effective(world) == CanonicalTags(SessionTags(world, <<>>))

\* What the last of the layers that mention a tag says of it.
Narrowest(layers) ==
    LET spoken == UNION {Keys(layers[i]) : i \in DOMAIN layers}
        Speaks(k) == Max({i \in DOMAIN layers : k \in Keys(layers[i])})
        Said(k) == ValueOf(Last(SelectSeq(layers[Speaks(k)], LAMBDA p : KeyOf(p) = k)))
    IN  [k \in {key \in spoken : Said(key) # ""} |-> Said(k)]

Roomy(world) == Cardinality(UNION {Keys(layer) : layer \in ToSet(Layers(world, <<>>))}) <= MaxTags
NarrowestWins(world) ==
    Roomy(world) =>
        Effective(world) = Narrowest(Layers(world, <<>>))

Refused(world, edit) ==
    \/ Misspelt(edit)
    \/ /\ ~edit.global /\ world.root # NULL
       /\ world.fest = Broken \/ (world.fest = NULL /\ world.pkg = Broken)

Over(set, before) ==
    Restrict(set @@ before, {k \in DOMAIN set \cup DOMAIN before : (set @@ before)[k] # ""})

\* Nothing narrower is in the way, and there is room.
Free(world, set) ==
    /\ world.env = NULL
    /\ world.root # NULL =>
          \A d \in DOMAIN ReadSavedTags(world).paths : Len(d) <= Len(world.root)
    /\ Cardinality(DOMAIN Effective(world) \cup DOMAIN set) <= MaxTags

OthersStay(world, edit) ==
    LET Others(tags) == Restrict(tags, DOMAIN tags \ Named(edit))
    IN  Others(Effective(RunTags(world, edit))) = Others(Effective(world))

EditTakesEffect(world, edit) ==
    LET set == CanonicalTags(FoldLeft(Put, <<>>, ParseTagPairs(edit.pairs)))
    IN  IF Refused(world, edit) THEN RunTags(world, edit) = world
        ELSE /\ Roomy(world) /\ Roomy(RunTags(world, edit)) => OthersStay(world, edit)
             /\ ~edit.global /\ edit.sub = "set" /\ Free(world, set) =>
                    Effective(RunTags(world, edit)) = Over(set, Effective(world))

FiledAsMeant(world, argv, header) ==
    LET peeled == PeelTagFlags(argv)
        flags == ParseTagPairs(peeled.tags)
        Flag(k) == ValueOf(flags[SelectLastInSeq(flags, LAMBDA p : KeyOf(p) = k)])
        meant == SessionTags(world, peeled.tags)
        adds == {p \in ToSet(ParseTagPairs(header)) : ValueOf(p) # "" /\ KeyOf(p) \notin Keys(meant)}
        filed == CanonicalTags(TagsOf(meant, header))
    IN  /\ IsSuffix(peeled.rest, argv)
        /\ peeled.rest # <<>> => Head(peeled.rest)[1] \notin {"--tag", "--tag="}
        /\ Cardinality(Keys(meant) \cup Keys(flags) \cup {KeyOf(p) : p \in adds}) <= MaxTags =>
              /\ \A k \in Keys(flags) :
                    IF Flag(k) = "" THEN k \notin Keys(meant) ELSE <<k, Flag(k)>> \in ToSet(meant)
              /\ DOMAIN filed = Keys(meant) \cup {KeyOf(p) : p \in adds}
              /\ \A k \in DOMAIN filed : <<k, filed[k]>> \in ToSet(meant) \cup adds
=============================================================================
