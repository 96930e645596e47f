---------------------------------- MODULE Files ----------------------------------
(* The tools that change files (restricted_filesystem.py). A path is resolved, its *)
(* ".." and its links included, and must then lie in the root of the call. A call  *)
(* has no await: calls come one after the other, in any order, and some raise when *)
(* they are half done: a file is opened, truncated, before the text is encoded and *)
(* written, and a destination is removed before it is replaced. Text is a set of   *)
(* tokens, one for each writing, so that one can tell what is still there.         *)
(* Removals are done in full.                                                      *)
EXTENDS Naturals, Sequences, SequencesExt, TLC

CONSTANTS
  Asked,      \* the paths that calls name, sequences of names, ".." and links
  MaxTexts,   \* bound on writings
  MaxCalls    \* bound on calls

VARIABLES
  tree,       \* resolved path -> [kind, body]; the root, and a place outside of it
  overwrites, \* the setting allow_overwrite
  texts,      \* how many texts were written
  given,      \* the texts that a call was told to remove or to overwrite
  dropped,    \* the other texts of a file whose patch raised
  calls

vars == <<tree, overwrites, texts, given, dropped, calls>>

Root == <<"root">>
Outside == <<"outside">>
Dir == [kind |-> "dir", body |-> {}]
File(b) == [kind |-> "file", body |-> b]

Init ==
  /\ tree = (Root :> Dir) @@ (Outside :> Dir) @@ (Outside \o <<"a">> :> File({0}))
            @@ (Root \o <<"link">> :> [kind |-> "link", body |-> {}])
  /\ overwrites \in BOOLEAN
  /\ texts = 0 /\ given = {} /\ dropped = {} /\ calls = 0

\* A slip: links are not followed.
ResolveNames(raw) ==
  FoldLeft(LAMBDA p, n : IF n = ".." THEN Front(p) ELSE Append(p, n), Root, raw)

\* Path.resolve: from the root of the call; the link leads outside.
Resolve(raw) ==
  LET step(p, n) ==
        LET to == Append(p, n)
        IN  CASE n = ".." /\ p = <<>> -> p
              [] n = ".." /\ p # <<>> -> Front(p)
              [] OTHER -> IF to \in DOMAIN tree /\ tree[to].kind = "link" THEN Outside ELSE to
  IN  FoldLeft(step, Root, raw)

\* What the system does with a path: it follows the link, resolved or not.
Place(p) ==
  LET l == Root \o <<"link">>
  IN  IF IsPrefix(l, p) /\ l \in DOMAIN tree /\ tree[l].kind = "link"
      THEN Outside \o SubSeq(p, 3, Len(p)) ELSE p

\* _resolve_path: the places a call may name.
Allowed == {Place(p) : p \in {p \in {Resolve(raw) : raw \in Asked} : IsPrefix(Root, p)}}

Is(p, kind) == p \in DOMAIN tree /\ tree[p].kind = kind
Exists(p) == p \in DOMAIN tree
Under(p) == {q \in DOMAIN tree : IsPrefix(p, q)}
Texts(P) == UNION {tree[q].body : q \in P}
Without(t, p) == [q \in {q \in DOMAIN t : ~IsPrefix(p, q)} |-> t[q]]

\* mkdir(parents=True) of the parent: it raises below a file.
Parents(p) == {SubSeq(p, 1, n) : n \in 1..Len(p) - 1}
Room(t, p) == \A q \in Parents(p) : q \in DOMAIN t => t[q].kind = "dir"
WithParents(t, p) == t @@ [q \in Parents(p) |-> Dir]

Call == calls < MaxCalls /\ calls' = calls + 1 /\ UNCHANGED overwrites

\* A call writes a text, or raises when it has opened the file.
Wrote(new) ==
  /\ new # {} => texts < MaxTexts
  /\ texts' = IF new = {} THEN texts ELSE texts + 1

\* write_text_file and write_json_file: a file that is there only if the setting allows it.
Writable(p) == (~Exists(p) \/ (overwrites /\ Is(p, "file"))) /\ Room(tree, p)

Write == \E p \in Allowed, new \in {{}, {texts + 1}} :
  /\ Call /\ Wrote(new) /\ Writable(p)
  /\ tree' = (p :> File(new)) @@ WithParents(tree, p)
  /\ given' = given \cup Texts({p} \cap DOMAIN tree)
  /\ UNCHANGED dropped

AppendText == \E p \in Allowed, new \in {{}, {texts + 1}} :
  /\ Call /\ Wrote(new)
  /\ ~Is(p, "dir") /\ Room(tree, p)
  /\ tree' = (p :> File(Texts({p} \cap DOMAIN tree) \cup new)) @@ WithParents(tree, p)
  /\ UNCHANGED <<given, dropped>>

\* apply_text_patch: some of the text is replaced, and the whole is written. If that
\* raises, there is the beginning of it, or nothing.
Patch == \E p \in Allowed, new \in {{}, {texts + 1}} :
  /\ Call /\ Wrote(new)
  /\ Is(p, "file")
  /\ \E old \in SUBSET tree[p].body \ {{}} : \E kept \in SUBSET (tree[p].body \ old) :
       /\ new # {} => kept = tree[p].body \ old
       /\ tree' = [tree EXCEPT ![p].body = kept \cup new]
       /\ given' = given \cup old
       /\ dropped' = dropped \cup (tree[p].body \ (old \cup kept))

MakeDirectory == \E p \in Allowed :
  /\ Call /\ ~Exists(p) /\ Room(tree, p)
  /\ tree' = (p :> Dir) @@ WithParents(tree, p)
  /\ UNCHANGED <<texts, given, dropped>>

\* delete_path: a directory only when it is told to be recursive.
Delete == \E p \in Allowed :
  /\ Call /\ Exists(p)
  /\ tree' = Without(tree, p)
  /\ given' = given \cup Texts(Under(p))
  /\ UNCHANGED <<texts, dropped>>

\* What a copy reads: the link is followed.
Followed(t) ==
  LET l == Root \o <<"link">>
  IN  IF l \in DOMAIN t THEN (l :> Dir) @@ (l \o <<"a">> :> t[Outside \o <<"a">>]) @@ t ELSE t

\* What there is at s in t, put to d in u.
Put(t, s, d, u) ==
  [q \in {d \o SubSeq(p, Len(s) + 1, Len(p)) : p \in {p \in DOMAIN t : IsPrefix(s, p)}} |->
     t[s \o SubSeq(q, Len(d) + 1, Len(q))]] @@ u

\* A slip: whether the destination may be replaced is only asked of files.
ReplacedUnasked(d) ==
  IF ~Exists(d) THEN tree
  ELSE IF overwrites \/ Is(d, "dir") THEN Without(tree, d) ELSE <<>>

\* move_path and copy_path first remove what they are to replace; <<>> if they may not.
Replaced(d) ==
  IF ~Exists(d) THEN tree
  ELSE IF overwrites THEN Without(tree, d) ELSE <<>>

\* Then they raise if the source went with it, or if the destination lies in the source,
\* except that a copy lists a directory before it makes its own child in it. A copy may
\* raise anyway. The parents that were made are left (and of a copy some of what it had
\* copied, which is still at the source).
MoveOrCopy(s, d, moved) ==
  LET cleared == Replaced(d)
      ready == WithParents(cleared, d)
      raises == s \notin DOMAIN cleared \/ (IsPrefix(s, d) /\ (moved \/ Len(d) > Len(s) + 1))
  IN  /\ Call /\ Exists(s) /\ cleared # <<>>
      /\ Room(cleared, d)
      /\ \/ (raises \/ ~moved) /\ tree' = ready
         \/ ~raises /\ moved /\ tree' = Put(cleared, s, d, Without(ready, s))
         \/ ~raises /\ ~moved /\ tree' = Put(Followed(cleared), s, d, ready)
      /\ given' = IF overwrites /\ Exists(d) THEN given \cup Texts(Under(d)) ELSE given
      /\ UNCHANGED <<texts, dropped>>

Move == \E s, d \in Allowed : MoveOrCopy(s, d, TRUE)
Copy == \E s, d \in Allowed : MoveOrCopy(s, d, FALSE)

Next == Write \/ AppendText \/ Patch \/ MakeDirectory \/ Delete \/ Move \/ Copy
Spec == Init /\ [][Next]_vars

-----------------------------------------------------------------------------
(* Whatever sequence of calls there is, those included that raise half done:       *)
(* nothing outside the root changes, and every text that was written is still      *)
(* somewhere, unless a call was told to delete it, to patch it away or, where the  *)
(* setting allows it, to overwrite what held it, or a patch of its file raised.    *)
TextsAreKept ==
  /\ Under(Outside) = {Outside, Outside \o <<"a">>} /\ Texts(Under(Outside)) = {0}
  /\ 1..texts \subseteq Texts(Under(Root)) \cup given \cup dropped

(* Not kept: a patch that raises leaves the text it was not told to replace. It    *)
(* truncates the file before the new text is encoded and written.                  *)
PatchesKeepTheRest == dropped \subseteq Texts(Under(Root)) \cup given

(* Not kept: a path that is moved or copied onto itself, or onto a directory above *)
(* it, is removed with what it was to replace.                                     *)
SourceIsNotReplaced ==
  [][\A s, d \in Allowed :
       (Move \/ Copy) /\ IsPrefix(d, s) /\ Exists(s) => Texts(Under(s)) \subseteq Texts(DOMAIN tree)']_vars
==================================================================================
