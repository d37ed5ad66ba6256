------------------------------- MODULE MCBbs -------------------------------
(***************************************************************************)
(* Two authors whose commands interleave, two names an attachment may      *)
(* have.  Authors and names are interchangeable.                           *)
(***************************************************************************)
EXTENDS Bbs, TLC

CONSTANTS alice, bob, x, y

MCAuthors   == {alice, bob}
MCFilenames == {x, y}

\* Uploads are explored as long as there are two posts and one reply; a third
\* post and a second reply only where nothing has been uploaded.
MCBound ==
    \/ /\ Len(posts) <= 2 /\ Len(replies) <= 1
       /\ \A u \in Authors : op[u].pc = "append post" => op[u].id <= 2
       /\ \A u \in Authors : op[u].pc = "append reply" => op[u].id <= 1
    \/ /\ \A path \in Paths : blobs[path] = "absent"
       /\ \A u \in Authors : op[u].path = NoPath

MCSymmetry == Permutations(MCAuthors) \cup Permutations(MCFilenames)
=============================================================================
