---------------------------- MODULE MCLifecycle ----------------------------
(* Instances of Lifecycle for TLC. *)
EXTENDS Lifecycle, TLC

CONSTANTS root, here, sub, alt, a, b, none, b1, b2, b3, b4, fresh

MCDirs == {root, sub, alt}
MCTitles == {a, b}
MCBodies == {b1, b2, b3, b4, fresh}

T(body, link) == [body |-> body, link |-> link]
To(d, t) == [dir |-> d, title |-> t]
MCFresh == T(fresh, none)

Files(f) == [i \in MCDirs \X MCTitles |-> IF i \in DOMAIN f THEN f[i] ELSE none]
RA == <<root, a>>
SA == <<sub, a>>
SB == <<sub, b>>
AA == <<alt, a>>

\* Links from the root, relative, and to their own Note; draft rows beside a
\* file, without one, and in a Directory that is gone, where a rename of the
\* other Directory would land.
Bundle(f, d) == [file |-> Files(f), draft |-> Files(d), dirs |-> {sub}]

Linked == {
    Bundle((RA :> T(b1, To(sub, a))) @@ (SA :> T(b2, To(here, a))),
           (SB :> T(b3, To(here, a)))),
    Bundle((RA :> T(b1, To(here, a))) @@ (SA :> T(b2, To(root, a))),
           (RA :> T(b4, To(sub, a))) @@ (AA :> T(b3, To(sub, a)))) }

MCGuestIds == {RA, SB}
MCGuestTexts == {T(fresh, none)}
=============================================================================
