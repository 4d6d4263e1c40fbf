------------------------------ MODULE ComboDivide ------------------------------
(***************************************************************************)
(* combo_tensor_col_divide (llama.cpp): the rows of src0, which are the    *)
(* columns of the result, are cut in two.  The fractions are uint32_t, so  *)
(* the product of rows and fraction is taken modulo 2^32: the iGPU may get *)
(* fewer rows than its fraction says.                                      *)
(***************************************************************************)
EXTENDS Integers

CONSTANT Word    \* 2^32

ASSUME WordAssumption == Word \in Nat \ {0}

(* Fault: any number of rows is worth a transfer. *)
nrow_igpu_unrounded(ne01, cpu_frac, igpu_frac) ==
    ((ne01 * igpu_frac) % Word) \div (cpu_frac + igpu_frac)

(* The first rows are the iGPU's, if there are 4 at least. *)
nrow_igpu(ne01, cpu_frac, igpu_frac) ==
    LET n == ((ne01 * igpu_frac) % Word) \div (cpu_frac + igpu_frac)
    IN  IF n < 4 THEN 0 ELSE n

(* The remaining ones are the CPU's. *)
nrow_cpu(ne01, cpu_frac, igpu_frac) == ne01 - nrow_igpu(ne01, cpu_frac, igpu_frac)

===============================================================================
