--------------------------- MODULE MCOfflineCache ---------------------------
\* TLC instance of OfflineCache: two sources with different prefixes.
EXTENDS OfflineCacheInv

CONSTANTS s1, s2, r1, r2

MCPrefix == [s \in Sources |-> IF s = s1 THEN "a" ELSE "b"]

\* The options of three caches: one for binaries, with every cache mode; one for
\* SPIR-V, where the device changes and with it the validation; and one for both.
Binaries == {c \in Config : c.mode # "kSpir_v" /\ c.bits = 64 /\ c.validate}
SpirV == {c \in Config : /\ c.mode = "kSpir_v" /\ c.validate = (c.bits = 64)
                         /\ \/ c.cache = "compile-if-absent"
                            \/ c.cache = "force-read" /\ c.bits = 64}
Both == {c \in Config : /\ c.bits = 64 /\ c.validate
                        /\ <<c.mode, c.cache>> \in {<<"kBinary", "overwrite">>,
                                                    <<"kSpir_v", "compile-if-absent">>}}

MCPlans == {Binaries, SpirV, Both}
=============================================================================
