---------------------------- MODULE AccountName ----------------------------
(***************************************************************************)
(* The account names of get_next_available_account (mixinproxy.cpp): the  *)
(* cache id written in base 31 over the alphabet "abcdefghijklmnopqrstuv  *)
(* wxyz12345" into the first nine characters of "aaaaaaaaamvm", least      *)
(* significant digit at index 8.  A name is the tuple of the alphabet     *)
(* indices of those nine characters; the constant suffix "mvm" is left    *)
(* out.                                                                   *)
(***************************************************************************)
EXTENDS Naturals, Sequences

NameBase == 31          \* the length of the alphabet
NameWidth == 9          \* the characters before the suffix "mvm"

\* vector<char> account = {'a', ..., 'a', 'm', 'v', 'm'}
BlankName == [i \in 1..NameWidth |-> 0]

\* while (id > 0) { account[index] = alphabet[id % 31]; id /= 31; index -= 1; }
\* (TLA+ index i is C++ index i - 1.)
\* Mutant: the index is not moved left, so every digit lands on index 8.
RECURSIVE MutEncodeLoop(_, _, _)
MutEncodeLoop(id, index, acc) ==
    IF id > 0
    THEN MutEncodeLoop(id \div NameBase, index, [acc EXCEPT ![index] = id % NameBase])
    ELSE acc

RECURSIVE EncodeLoop(_, _, _)
EncodeLoop(id, index, acc) ==
    IF id > 0
    THEN EncodeLoop(id \div NameBase, index - 1, [acc EXCEPT ![index] = id % NameBase])
    ELSE acc

EncodeName(id) == EncodeLoop(id, NameWidth, BlankName)

\* FIRST_USER_ACCOUNT = "aaaaaaaaamvm"
FirstUserAccount == BlankName

\* Reference: the nine-digit base-31 numeral of id, most significant first.
\* (digit k, counted from the least significant one: id / 31^k mod 31)
RECURSIVE DigitAt(_, _)
DigitAt(id, k) == IF k = 0 THEN id % NameBase ELSE DigitAt(id \div NameBase, k - 1)

Base31Numeral(id) == [i \in 1..NameWidth |-> DigitAt(id, NameWidth - i)]
=============================================================================
