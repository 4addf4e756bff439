---------------------------- MODULE MCClientCalls ----------------------------
(* Small instances of ClientCalls for TLC. *)
EXTENDS ClientCalls

\* Two runs of ordinary characters in a row are one.
Distinct(s) == \A i \in 1 .. Len(s) - 1 : ~(s[i] = "n" /\ s[i + 1] = "n")

\* Long enough for a domain with a dot, a project, and a dataset of two parts.
MCTexts == {s \in BoundedSeq({"n", ".", ":"}, 9) \cup BoundedSeq(Chars, 6) : Distinct(s)}

MCIds == {NewTableId(p, d, t) : p \in BoundedSeq({"n", ".", ":"}, 3), d \in BoundedSeq({"n", ".", ":"}, 3),
                                t \in BoundedSeq({"n", ".", "/"}, 1)}

MCLimits == {-2, 0, 1, 3}
=============================================================================
