SPECIFICATION CrawlSpec
CONSTANTS
  first = first  second = second  below = below
  plain = plain  other = other
  product = product
  None = None
  Sections <- MCSections
  Hashes <- MCHashes
  Targets = {product}
  Texts <- MCTexts
  Products <- MCProducts
  Navs <- MCNavs
  MaxSiteEdits = 2
INVARIANTS
  NoStaleEdges
  VectorsAreRepaired
