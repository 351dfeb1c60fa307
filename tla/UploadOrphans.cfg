\* See README.md for what the bounds are and why they are enough.
SPECIFICATION Spec
CONSTANTS
    a = a  b = b  c = c  image = image  document = document
    None = None
    Files = {a, b, c}
    Fields = {image, document}
    FieldOf <- TwoImages
    Required = {image}
    Pipeline <- ThumbAndDocument
    Local = FALSE
INVARIANTS
    RejectedLeavesNothing
\* The request is over.
CHECK_DEADLOCK FALSE
