--------------------------- MODULE MCPaymentForm ---------------------------
(* Small instances of PaymentForm.                                         *)
EXTENDS PaymentForm

CONSTANTS card, wallet, other, f1, f2

\* A reference that fits its key, and one that does not and differs from the
\* next one's at its end only.
Short == <<"S", "/", "1">>
Long == <<"S", "0", "0", "0", "/", "1", "2">>

ShopOf(reference, odoo, xpay, amounts, presentment) ==
    [reference |-> reference, odoo |-> odoo, xpay |-> xpay,
     amounts |-> amounts, presentment |-> presentment]

\* XPay's decimals fewer than Odoo's, or more.
SmallShops ==
    { ShopOf(Long, 2, 0, {1500, 2490}, TRUE), ShopOf(Short, 2, 3, {1050, 1060}, FALSE) }
=============================================================================
