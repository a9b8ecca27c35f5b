---------------------------- MODULE MCEjecucion ----------------------------
(***************************************************************************)
(* Instances of Ejecucion: two processes whose programs use every          *)
(* instruction of the module between them, registers of 2 and 4 bits and   *)
(* pages of 2 bytes.                                                       *)
(***************************************************************************)
EXTENDS Ejecucion

I(op, params) == [op |-> op, params |-> params]

\* A loop over a register of one byte; sums and differences that wrap around, with
\* sources shorter and longer than their destination.
Bucle == <<I("SET", <<"AX", "1">>), I("SET", <<"EBX", "3">>), I("SUM", <<"BX", "EBX">>),
           I("SUB", <<"AX", "BX">>), I("SUB", <<"EBX", "AX">>), I("JNZ", <<"AX", "3">>),
           I("IO_GEN_SLEEP", <<"gen", "3">>), I("EXIT", <<>>)>>

\* JNZ on SI does not jump; SET on a register of one byte cuts; PC is a register too.
Saltos == <<I("SET", <<"SI", "5">>), I("JNZ", <<"SI", "0">>), I("SET", <<"CX", "7">>),
            I("SUM", <<"ECX", "CX">>), I("JNZ", <<"ECX", "6">>), I("EXIT", <<>>),
            I("SUM", <<"PC", "CX">>)>> \o [i \in 1..3 |-> I("SET", <<"DX", "1">>)]
          \o <<I("IO_STDIN_READ", <<"stdin", "ECX", "CX">>), I("EXIT", <<>>)>>

Fichero == <<I("SET", <<"EAX", "3">>), I("IO_FS_CREATE", <<"fs", "notas">>),
             I("IO_FS_TRUNCATE", <<"fs", "notas", "EAX">>), I("SET", <<"AX", "2">>),
             I("IO_FS_WRITE", <<"fs", "notas", "AX", "EAX", "AX">>),
             I("IO_FS_DELETE", <<"fs", "notas">>), I("EXIT", <<>>)>>

Lector == <<I("SET", <<"EDX", "2">>), I("SET", <<"DI", "1">>),
            I("IO_FS_READ", <<"fs", "n", "DI", "EDX", "DI">>),
            I("IO_STDOUT_WRITE", <<"stdout", "DI", "EDX">>), I("SUM", <<"DI", "EDX">>),
            I("EXIT", <<>>)>>

\* The last instruction names an interface of another type, or none.
Impropio == <<I("SET", <<"BX", "1">>), I("IO_GEN_SLEEP", <<"fs", "3">>), I("EXIT", <<>>)>>
Ausente == <<I("IO_GEN_SLEEP", <<"nadie", "3">>), I("EXIT", <<>>)>>

Pares == {<<Bucle, Fichero>>, <<Saltos, Bucle>>, <<Fichero, Lector>>,
          <<Lector, Impropio>>, <<Saltos, Ausente>>}

DosPids == 0..1
CargasMC == {[p \in DosPids |-> par[p + 1]] : par \in Pares}

Numeros == "0" :> 0 @@ "1" :> 1 @@ "2" :> 2 @@ "3" :> 3 @@ "5" :> 5 @@ "6" :> 6 @@ "7" :> 7

LongitudMC == [s \in DOMAIN Numeros |-> 2]
              @@ [s \in Cortos \union {"SI", "DI", "PC", "fs"} |-> 3]
              @@ [s \in {"EAX", "EBX", "ECX", "EDX", "gen"} |-> 4]
              @@ ("notas" :> 6 @@ "n" :> 2 @@ "stdin" :> 6 @@ "stdout" :> 7 @@ "nadie" :> 6)

AtoiMC == [s \in DOMAIN LongitudMC |-> IF s \in DOMAIN Numeros THEN Numeros[s] ELSE 0]

\* Pages of two bytes; page k of process p is in frame 2k + p.
Pedazo(p, dl, resta) ==
    LET hueco == 2 - (dl % 2)
    IN  [direccion_fisica |-> 2 * (2 * (dl \div 2) + p) + (dl % 2),
         desplazamiento_necesario |-> IF resta < hueco THEN resta ELSE hueco]

Pedazos[p \in DosPids, dl \in 0..40, n \in 0..20] ==
    IF n = 0 THEN <<>>
    ELSE LET d == Pedazo(p, dl, n)
         IN  <<d>> \o Pedazos[p, dl + d.desplazamiento_necesario, n - d.desplazamiento_necesario]

TraduccionMC == [t \in DosPids \X (0..15) \X (0..16) |-> Pedazos[t]]

ConexionesMC == "gen" :> "GENERICA" @@ "stdin" :> "STDIN" @@ "stdout" :> "STDOUT" @@ "fs" :> "DIALFS"
=============================================================================
