------------------------ MODULE AttributesAbstract ------------------------
(***************************************************************************)
(* What an attribute request promises, as one atomic step.                 *)
(*                                                                         *)
(* A request whose attribute names, window or surface rows are invalid is  *)
(* answered with a bad request.  Any other request is answered either      *)
(* with an error (nothing partial is returned) or with nAttributes maps of *)
(* hsize floats each, where a cell holds the fill value exactly when it    *)
(* owns no vertical window (spec.md 4.6, 7 and 8: fill in, fill out).      *)
(***************************************************************************)
EXTENDS Naturals, FiniteSets

CONSTANTS
    Shapes,         \* the surface shapes <<nrows, ncols>>
    Patterns(_),    \* the fill patterns of a surface of hsize cells
    MaxAttributes,  \* the longest attribute list
    Errors          \* the error statuses a valid request may still end with

VARIABLES
    nrows, ncols, populated, nAttributes,
    namesValid,     \* every attribute name is known to GetAttributeType
    windowValid,    \* above >= 0 and below >= 0
    rowsEqual,      \* every row of the surface has the length of row 0
    response,       \* "none" until answered, then "ok" or an error status
    maps            \* the answer: pairs <<slot, "fill" | "value">>

vars == <<nrows, ncols, populated, nAttributes, namesValid, windowValid,
          rowsEqual, response, maps>>

\* The maps a successful answer carries: slot i * hsize + c of attribute i.
ExpectedMaps ==
    { <<i * (nrows * ncols) + c, IF populated[c] THEN "value" ELSE "fill">> :
        i \in 0 .. nAttributes - 1, c \in 0 .. nrows * ncols - 1 }

Init ==
    /\ \E s \in Shapes : nrows = s[1] /\ ncols = s[2]
    /\ populated \in Patterns(nrows * ncols)
    /\ nAttributes \in 1 .. MaxAttributes
    /\ namesValid \in BOOLEAN
    /\ windowValid \in BOOLEAN
    /\ rowsEqual \in BOOLEAN
    /\ response = "none"
    /\ maps = {}

Answer ==
    /\ response = "none"
    /\ IF namesValid /\ windowValid /\ rowsEqual
       THEN \/ response' = "ok" /\ maps' = ExpectedMaps
            \/ \E e \in Errors : response' = e /\ maps' = {}
       ELSE response' = "bad_request" /\ maps' = {}
    /\ UNCHANGED <<nrows, ncols, populated, nAttributes, namesValid,
                   windowValid, rowsEqual>>

Spec == Init /\ [][Answer]_vars /\ WF_vars(Answer)

=============================================================================
