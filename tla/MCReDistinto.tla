----------------------------- MODULE MCReDistinto -----------------------------
(* Instances of ReDistinto for TLC: the scripts and the lists of the runs. *)
EXTENDS ReDistinto

Ins(o, k) == [op |-> o, clave |-> k]

CONSTANTS e1, e2, e3, k1, k2, k3

\* Two keys in both orders, so that ESIs may wait for each other, a key given
\* back by a STORE, and a key asked for twice by the same ESI.
GuionesCruzados ==
    {<<Ins("GET", k1), Ins("SET", k1), Ins("GET", k2), Ins("STORE", k1)>>,
     <<Ins("GET", k2), Ins("GET", k1)>>,
     <<Ins("GET", k1), Ins("GET", k1)>>}

\* One key each, stored or kept until the end.
GuionesOrdenados ==
    {<<Ins("GET", k1), Ins("SET", k1), Ins("STORE", k1)>>,
     <<Ins("GET", k1), Ins("SET", k1)>>,
     <<Ins("GET", k2)>>}

\* One key, given back by a STORE or by ending: three ESIs may wait in line.
GuionesBreves ==
    {<<Ins("GET", k1), Ins("SET", k1), Ins("STORE", k1)>>,
     <<Ins("GET", k1)>>}

\* A key that is too long (k3), a line that does not parse, a STORE of a key
\* of somebody else.
GuionesConFallas ==
    {<<Ins("GET", k1), Ins("SET", k1), Ins("STORE", k1)>>,
     <<Ins("GET", k1), Ins("GET", k3)>>,
     <<Ins("GET", k1), Ins("INVALIDA", NULL)>>,
     <<Ins("STORE", k1)>>}

\* No key locked by configuration, or k2, which only desbloquear frees.
SinIniciales == <<>>
SoloK2 == <<k2>>
=============================================================================
