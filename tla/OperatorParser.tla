---------------------------- MODULE OperatorParser ----------------------------
(***************************************************************************)
(* create_qiskit_operator (estimation/src/estimator.py): the operator     *)
(* text of an estimation request, a Python literal list of                *)
(* [term_text, coefficient] pairs, becomes a SparsePauliOp on n qubits.   *)
(*                                                                         *)
(* A term text is a sequence of one-character strings.  A parsed term is *)
(* the set of its non-identity factors <<qubit, pauli>>; coefficients     *)
(* pass through complex() untouched and are left out.  The result is the *)
(* list of parsed terms, or the exception create_qiskit_operator raises:  *)
(* ValueError from ast.literal_eval or int(), or ParameterValueError,     *)
(* which wraps every QiskitError of SparsePauliOp.from_sparse_list.       *)
(* The module holds operators only: EstimationPreprocess instantiates it  *)
(* for the call _preprocess makes, and checks the result against          *)
(* SpecTerm, section 4.2's tokenization, defined below.                   *)
(***************************************************************************)
EXTENDS Integers, Sequences, FiniteSets, SequencesExt

CONSTANTS
  BadLiteral,    \* an operator string ast.literal_eval rejects
  ValueErr,      \* ValueError raised by literal_eval or int()
  QiskitErr,     \* QiskitError raised by from_sparse_list
  ParameterErr   \* ParameterValueError

Letters == {"I", "X", "Y", "Z"}
DigitChars == <<"0", "1", "2", "3", "4", "5", "6", "7", "8", "9">>
IsLetter(c) == c \in Letters
IsDigit(c) == c \in ToSet(DigitChars)
DigitValue(c) == CHOOSE v \in 0 .. 9 : DigitChars[v + 1] = c

(* str.strip()                                                            *)
Strip(s) ==
  LET keep == {i \in 1 .. Len(s) : s[i] # " "}
  IN IF keep = {} THEN <<>> ELSE SubSeq(s, Min(keep), Max(keep))

(* re.sub(r"([a-zA-Z])(\d)", r"\1 \2", s): matches do not overlap, so     *)
(* the scan resumes after the digit.                                      *)
RECURSIVE SeparateFrom(_, _)
SeparateFrom(s, i) ==
  IF i > Len(s) THEN <<>>
  ELSE IF i < Len(s) /\ IsLetter(s[i]) /\ IsDigit(s[i + 1])
    THEN <<s[i], " ", s[i + 1]>> \o SeparateFrom(s, i + 2)
  ELSE <<s[i]>> \o SeparateFrom(s, i + 1)

(* str.split(): the maximal runs of non-space characters.                 *)
SplitWords(s) ==
  LET RECURSIVE Go(_, _, _)
      Go(i, cur, acc) ==
        LET done == IF cur = <<>> THEN acc ELSE Append(acc, cur) IN
        IF i > Len(s) THEN done
        ELSE IF s[i] = " " THEN Go(i + 1, <<>>, done)
        ELSE Go(i + 1, Append(cur, s[i]), acc)
  IN Go(1, <<>>, <<>>)

(* int(token): a run of decimal digits, or ValueError.                    *)
IntOf(tok) ==
  IF tok # <<>> /\ \A i \in 1 .. Len(tok) : IsDigit(tok[i])
    THEN FoldLeft(LAMBDA a, c : 10 * a + DigitValue(c), 0, tok)
    ELSE ValueErr

(* from_sparse_list((label, indices, coef), num_qubits=n): one Pauli      *)
(* letter per index, no index twice, every index below n.                 *)
FromSparse(label, indices, n) ==
  IF /\ Len(label) = Len(indices)
     /\ \A i \in 1 .. Len(label) : IsLetter(label[i])
     /\ Cardinality(ToSet(indices)) = Len(indices)
     /\ \A i \in 1 .. Len(indices) : indices[i] < n
    THEN {<<indices[i], label[i]>> : i \in {j \in 1 .. Len(label) : label[j] # "I"}}
    ELSE QiskitErr

(* Mutant: the label string assembled back to front.                      *)
LabelReversed(toks) ==
  Reverse(FlattenSeq([i \in 1 .. (Len(toks) + 1) \div 2 |-> toks[2 * i - 1]]))

(* "".join(pauli_and_index_list[0::2])                                    *)
Label(toks) == FlattenSeq([i \in 1 .. (Len(toks) + 1) \div 2 |-> toks[2 * i - 1]])

(* One term of the loop: strip, separate, "I" -> "I 0", split, label,     *)
(* int() of every index token.                                             *)
ParseTerm(text, n) ==
  LET sep == SeparateFrom(Strip(text), 1)
      toks == SplitWords(IF sep = <<"I">> THEN <<"I", " ", "0">> ELSE sep)
      idx == [i \in 1 .. Len(toks) \div 2 |-> IntOf(toks[2 * i])]
  IN IF \E i \in DOMAIN idx : idx[i] = ValueErr THEN ValueErr
     ELSE FromSparse(Label(toks), idx, n)

(* Mutant: the try/except around from_sparse_list dropped, so QiskitError *)
(* itself escapes.                                                        *)
CreateQiskitOperatorUnwrapped(ops, n) ==
  IF ops = BadLiteral THEN ValueErr
  ELSE LET rs == [i \in DOMAIN ops |-> ParseTerm(ops[i], n)]
       IN IF \E i \in DOMAIN rs : rs[i] = ValueErr THEN ValueErr
          ELSE IF \E i \in DOMAIN rs : rs[i] = QiskitErr THEN QiskitErr
          ELSE rs

(* create_qiskit_operator: the first term that raises ends the call;      *)
(* int() raises inside the loop, from_sparse_list after it, its            *)
(* QiskitError re-raised as ParameterValueError.                           *)
CreateQiskitOperator(ops, n) ==
  IF ops = BadLiteral THEN ValueErr
  ELSE LET rs == [i \in DOMAIN ops |-> ParseTerm(ops[i], n)]
       IN IF \E i \in DOMAIN rs : rs[i] = ValueErr THEN ValueErr
          ELSE IF \E i \in DOMAIN rs : rs[i] = QiskitErr THEN ParameterErr
          ELSE rs

(* create_qiskit_operator raised: the handler's except clause takes over. *)
Raised(r) == r \in {ValueErr, QiskitErr, ParameterErr}

-----------------------------------------------------------------------------
Terms == SUBSET ((0 .. 99) \X (Letters \ {"I"}))

(* Section 4.2's tokenization: a separator between a letter and a digit    *)
(* either way round ("X0Z1" is X 0 Z 1), so the tokens are the maximal     *)
(* runs of letters and of digits; they must alternate one Pauli letter and *)
(* one index; a bare "I" is the identity; a repeated index or one >= n is  *)
(* a parameter error.                                                     *)
SpecTokens(s) ==
  LET Kind(c) == IF IsLetter(c) THEN "letter" ELSE "digit"
      RECURSIVE Go(_, _, _)
      Go(i, cur, acc) ==
        LET done == IF cur = <<>> THEN acc ELSE Append(acc, cur) IN
        IF i > Len(s) THEN done
        ELSE IF s[i] = " " THEN Go(i + 1, <<>>, done)
        ELSE IF cur # <<>> /\ Kind(cur[1]) # Kind(s[i]) THEN Go(i + 1, <<s[i]>>, done)
        ELSE Go(i + 1, Append(cur, s[i]), acc)
  IN Go(1, <<>>, <<>>)

SpecTerm(s, n) ==
  LET toks == SpecTokens(s)
      pairs == 1 .. Len(toks) \div 2
      idx == [i \in pairs |-> IntOf(toks[2 * i])]
  IN IF toks = <<<<"I">>>> THEN {}
     ELSE IF /\ Len(toks) % 2 = 0
             /\ \A i \in pairs : Len(toks[2 * i - 1]) = 1 /\ IsLetter(toks[2 * i - 1][1])
             /\ \A i \in pairs : idx[i] # ValueErr
             /\ Cardinality(ToSet(idx)) = Len(idx)
             /\ \A i \in pairs : idx[i] < n
       THEN {<<idx[i], toks[2 * i - 1][1]>> : i \in {j \in pairs : toks[2 * j - 1] # <<"I">>}}
       ELSE ParameterErr

=============================================================================
