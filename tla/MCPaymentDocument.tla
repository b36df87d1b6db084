------------------------- MODULE MCPaymentDocument -------------------------
(* PaymentDocument with the requisites of the repository's tests, and an     *)
(* account of the same bank that has two neighbours five apart.              *)
EXTENDS PaymentDocument

Bic == <<0, 4, 4, 5, 2, 5, 2, 2, 5>>
Settlement == <<4, 0, 7, 0, 2, 8, 1, 0, 0, 0, 0, 0, 0, 0, 0, 0, 0, 0, 0, 7>>
Correspondent == <<3, 0, 1, 0, 1, 8, 1, 0, 0, 0, 0, 0, 0, 0, 0, 0, 0, 0, 0, 7>>
Branch == <<4, 0, 7, 0, 2, 8, 1, 0, 5, 0, 0, 0, 0, 0, 0, 0, 0, 0, 0, 2>>

\* A company, and an entrepreneur whose both accounts are settlement ones.
TestForms ==
  {[bic |-> Bic, personal_acc |-> Settlement, corresp_acc |-> Correspondent,
    payee_inn |-> <<7, 7, 0, 7, 0, 8, 3, 8, 9, 3>>, kpp |-> <<7, 7, 0, 7, 0, 1, 0, 0, 1>>],
   [bic |-> Bic, personal_acc |-> Settlement, corresp_acc |-> Branch,
    payee_inn |-> <<7, 7, 0, 7, 0, 8, 3, 8, 9, 0, 0, 3>>, kpp |-> <<>>]}
=============================================================================
