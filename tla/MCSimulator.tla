----------------------------- MODULE MCSimulator -----------------------------
(* Instances of Simulator for TLC: programs of three statements on two pages. *)
EXTENDS Simulator, TLC

\* One of each kind of branch, and the linear program of pgm4.pseudo.
MCprograms ==
    0 :> [size |-> 3, exit |-> 2,
          branches |-> {[wherefrom |-> 1, whereto |-> 0, btype |-> FOR, min |-> 1, max |-> 3]}]
    @@ 1 :> [size |-> 3, exit |-> 2, branches |-> {}]

Source == INSTANCE ProgramTable
Actual == INSTANCE Simulator WITH
    procs <- Source!Defined.MAXPROCESSES, MAXPROCPAGES <- Source!Defined.MAXPROCPAGES,
    PAGESIZE <- Source!Defined.PAGESIZE, PAGEWAIT <- Source!Defined.PAGEWAIT,
    PHYSICALPAGES <- Source!Defined.PHYSICALPAGES, PROGRAMS <- Cardinality(DOMAIN Source!Table),
    programs <- [k \in DOMAIN Source!Table |-> Source!Loaded(k)],
    QUEUESIZE <- 8 * Cardinality(DOMAIN Source!Table)

\* The programs of programs.c are as SimulatorAssumption asks of any programs.
ASSUME ActualPrograms == \A k \in Actual!Kinds : Actual!Fits(Source!Loaded(k))

\* Looking a branch up in a set is what the bisection of process_step does: in each
\* of the programs with branches it finds those that are at pc, for every pc.
ASSUME BisectionFinds ==
    \A k \in Actual!Kinds :
        LET b == Source!Table[k].branches IN
        b # << >> => \A a \in 0 .. Source!Table[k].size :
                        Source!Search(b, a) = {c \in Source!Loaded(k).branches : c.wherefrom = a}
=============================================================================
