----------------------------- MODULE NarWriter -----------------------------
(***************************************************************************)
(* The tokens of NARs (nix-compat/src/nar/wire), and the writers of them.  *)
(* A string, the length of a file, a byte of it and its padding are one    *)
(* token each.                                                             *)
(***************************************************************************)
EXTENDS Integers, Sequences, SequencesExt

CONSTANTS Block         \* what byte strings are padded to (8 bytes)

T(t) == [t |-> t]
Str(v) == [t |-> "str", v |-> v]
LenTok(n) == [t |-> "len", v |-> n]
\* The padding, all zeroes.
Pad(n) == IF n % Block = 0 THEN <<>> ELSE <<T("pad")>>

\* The reference: what archive a tree stands for (nar/wire/mod.rs, "Grammar").
RECURSIVE RenderNode(_)
RenderNode(tree) ==
    CASE tree.type = "symlink" -> <<T("SYM"), Str(tree.target), T("PAR")>>
      [] tree.type = "regular" -> <<T(IF tree.exe THEN "EXE" ELSE "REG"), LenTok(Len(tree.contents))>>
                                  \o tree.contents \o Pad(Len(tree.contents)) \o <<T("PAR")>>
      [] tree.type = "directory" ->
            <<T("DIR")>>
            \o FlattenSeq([i \in DOMAIN tree.entries |->
                  <<T("ENT"), Str(tree.entries[i][1]), T("NOD")>> \o RenderNode(tree.entries[i][2]) \o <<T("PAR")>>])
            \o <<T("PAR")>>
Render(tree) == <<T("NAR")>> \o RenderNode(tree)

(* The writer: open, Node::symlink, file, directory; Directory::entry, close *)
symlink(target) == <<T("SYM"), Str(target), T("PAR")>>
\* file, and file_manual_write with FileManualWrite::close: before and after the contents.
fileOpen(exe, size) == <<T(IF exe THEN "EXE" ELSE "REG"), LenTok(size)>>
fileClose(size) == Pad(size) \o <<T("PAR")>>
close(named) == (IF named THEN <<T("PAR")>> ELSE <<>>) \o <<T("PAR")>>
entry(named, name) == (IF named THEN <<T("PAR")>> ELSE <<>>) \o <<T("ENT"), Str(name), T("NOD")>>
=============================================================================
