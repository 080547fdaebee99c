------------------------------ MODULE FileTree -------------------------------
(***************************************************************************)
(* What a volume being written promises its readers: a tree of names, each *)
(* for something with an inode number and a kind, and what is behind each: *)
(* its mode and owner and, unless it is a directory, its contents.  A call *)
(* makes one name, takes one away or changes what is behind one; all else  *)
(* stays as it was, also when the device fails while something is made.    *)
(* That holds until an error costs more; from then on nothing is promised. *)
(***************************************************************************)
EXTENDS Integers, FiniteSets

VARIABLES
    tree,       \* <<directory, name>> -> [at, kind]
    body,       \* inode -> mode, owner and contents
    broken      \* an error has cost more than space

vars == <<tree, body, broken>>

Named(t) == {t[e].at : e \in DOMAIN t}
Same(f, g, S) == \A x \in S : f[x] = g[x]

Init == Named(tree) \subseteq DOMAIN body /\ ~ broken

(* From tree t and bodies b to u and c: a new name, for something new or   *)
(* for another file's contents.                                            *)
Add(t, u, b, c) ==
    \E e \in DOMAIN u \ DOMAIN t :
        /\ DOMAIN u = DOMAIN t \cup {e}
        /\ Same(u, t, DOMAIN t)
        /\ DOMAIN b \subseteq DOMAIN c /\ Same(c, b, DOMAIN b)
        /\ DOMAIN c \subseteq DOMAIN b \cup {u[e].at}
        /\ u[e].at \in Named(t) => u[e].kind # "dir" /\ c = b

(* A name goes, and with the last one what it was for: a directory only    *)
(* when it is empty.                                                       *)
Remove(t, u, b, c) ==
    \E e \in DOMAIN t \ DOMAIN u :
        /\ DOMAIN u = DOMAIN t \ {e}
        /\ Same(u, t, DOMAIN u)
        /\ t[e].kind = "dir" => \A x \in DOMAIN t : x[1] # t[e].at
        /\ DOMAIN c = DOMAIN b \ ({t[e].at} \ Named(u))
        /\ Same(c, b, DOMAIN c)

Rewrite(t, u, b, c) ==
    \E i \in DOMAIN b :
        /\ u = t
        /\ DOMAIN c = DOMAIN b /\ Same(c, b, DOMAIN b \ {i})

(* A flush fails, or a call that replaces or removes, now or before. *)
Break == broken'

Next ==
    LET t == tree
        u == tree'
        b == body
        c == body' IN
    Break \/ (UNCHANGED broken /\ (Add(t, u, b, c) \/ Remove(t, u, b, c) \/ Rewrite(t, u, b, c)))

Spec == Init /\ [][Next]_vars
=============================================================================
