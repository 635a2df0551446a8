----------------------------- MODULE Catalogue -----------------------------
(***************************************************************************)
(* ProductsService: categories, brands, units, products and their          *)
(* barcodes; and the customers and suppliers of SalesService and           *)
(* PurchasesService, which are created without any check.  The ids that a  *)
(* device may give its products are UUIDs and do not collide with others.  *)
(***************************************************************************)
EXTENDS Tenancy

CategoryDto == [kind : {"Category"}, tenant : Tenant, name : Code]
BrandDto    == [kind : {"Brand"}, tenant : Tenant, name : Code]
UnitDto     == [kind : {"Unit"}, tenant : Tenant, code : Code]
ProductDto  == [kind : {"Product"}, tenant : Tenant, sku : Code,
                barcode : Code \cup {Null}, category : SUBSET KeyOf("Category"),
                brand : SUBSET KeyOf("Brand"), unit : SUBSET KeyOf("Unit")]
CustomerDto == [kind : {"Customer"}, tenant : Tenant, id : Code \cup {Null}]
SupplierDto == [kind : {"Supplier"}, tenant : Tenant]

\* A row whose key is looked for first: the check and the insert are two
\* statements, so only the key keeps two rows apart.
CheckThenInsert(key) == <<Absent(key), Insert(key, {Company(key.tenant)})>>

CreateCategory(d) == CheckThenInsert(Key("Category", d.tenant, d.name))
CreateBrand(d)    == CheckThenInsert(Key("Brand", d.tenant, d.name))
CreateUnit(d)     == CheckThenInsert(Key("Unit", d.tenant, d.code))

\* `barcode @unique`: one row for a barcode over all companies.
BarcodeKey(barcode) == Key("ProductBarcode", Null, barcode)

\* Mutant: the unit of another company is accepted.
CreateProductForeignUnit(d) ==
  LET product == Key("Product", d.tenant, d.sku)
  IN  <<Absent(product)>>
        \o IfGiven(d.category) \o IfGiven(d.brand)
        \o <<Insert(product, {Company(d.tenant)} \cup d.category \cup d.brand \cup d.unit)>>
        \o (IF d.barcode = Null THEN <<>>
            ELSE <<TryInsert(BarcodeKey(d.barcode), {product})>>)

CreateProduct(d) ==
  LET product == Key("Product", d.tenant, d.sku)
  IN  <<Absent(product)>>
        \o IfGiven(d.category) \o IfGiven(d.brand) \o IfGiven(d.unit)
        \o <<Insert(product, {Company(d.tenant)} \cup d.category \cup d.brand \cup d.unit)>>
        \o (IF d.barcode = Null THEN <<>>
            ELSE <<TryInsert(BarcodeKey(d.barcode), {product})>>)

\* A customer may arrive with the id that a device gave it.
CreateCustomer(r, d) ==
  <<Insert(Key("Customer", d.tenant, IF d.id = Null THEN r ELSE d.id), {Company(d.tenant)})>>

CreateSupplier(r, d) == <<Insert(Key("Supplier", d.tenant, r), {Company(d.tenant)})>>
=============================================================================
