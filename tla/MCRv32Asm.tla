------------------------------- MODULE MCRv32Asm -------------------------------
(***************************************************************************)
(* Every mnemonic, with register numbers whose bit patterns differ and     *)
(* immediates at the ends of their ranges; gaps that put a label at the    *)
(* last offset a branch reaches and one word beyond it.                    *)
(***************************************************************************)
EXTENDS Rv32Asm

\* An immediate of many ones and zeros; the ends of the range for one mnemonic of each form.
Imms(m) == IF m \in {"ADDI", "SW"} THEN {-2048, -1365, 2047} ELSE {-1365}

MCPlain ==
  {Instruction(m, 26, 5, 19, 0) : m \in DOMAIN RegForms}
    \cup UNION {{Instruction(m, 26, 5, 0, n) : n \in Imms(m)} :
                m \in DOMAIN ImmForms \cup DOMAIN LoadForms \cup {"JALR"}}
    \cup {Instruction(m, 26, 5, 0, 21) : m \in DOMAIN ShiftForms}
    \cup UNION {{Instruction(m, 0, 5, 19, n) : n \in Imms(m)} : m \in DOMAIN StoreForms}
    \cup {Instruction(m, 26, 0, 0, 699051) : m \in DOMAIN UpperForms}
    \cup {Instruction("EBREAK", 0, 0, 0, 0)}

MCJumps ==
  {[m |-> m, rd |-> 0, rs1 |-> 5, rs2 |-> 19] : m \in DOMAIN BranchForms}
    \cup {[m |-> "JAL", rd |-> 26, rs1 |-> 0, rs2 |-> 0]}

================================================================================
