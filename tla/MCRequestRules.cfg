\* No default owner: the one configuration in which an owner can be missing.
SPECIFICATION Spec
CONSTANTS
  Tokens <- AllTokens
  Forms <- ManyForms
  Repositories <- Meant
  Good <- RightForm
  DefaultOwner <- NoText
  DefaultNamespace <- SomeText
  Alnum <- Characters
  Digits <- One
  MaxName = 3
  MaxInt = 70000
INVARIANTS TypeOK ImagesAsTheOperator RepositoryMeant OneRefusal RenderingFits
CHECK_DEADLOCK FALSE
